---- MODULE Spec2Model ----
(***************************************************************************)
(* A model of the location-ingestion core of realtime-geoinsight-api:      *)
(* DeviceService (device row, cached location, trajectory segmentation),   *)
(* GeofenceService (geofence rows and containment queries),                *)
(* GeofenceMonitoringService (membership sets and enter/exit events),      *)
(* the rate limiters, the webhook dispatcher, tracker and event processor, *)
(* and the response cache.                                                 *)
(*                                                                         *)
(* Collaborators are modelled by the interface the services call and the   *)
(* tests mock: a cache client offering setex/get/delete and pipelines, a   *)
(* LocationUpdate carrying latitude, longitude, timestamp and speed, and a *)
(* PostgreSQL store reached through an autoflushing SQLAlchemy session.    *)
(*                                                                         *)
(* Device timestamps are counted in units of 30 minutes, limiter clocks    *)
(* in seconds.  A location is one cell of a small grid; a geofence shape   *)
(* is the set of cells ST_Contains answers true for.                       *)
(***************************************************************************)
EXTENDS Integers, Sequences, FiniteSets, Bags, TLC

\* ------------------------------------------------------------------ bounds
MaxTime == 3
MaxPoints == 3
MaxCalls == 3
MaxRequests == 4
MaxPosts == 5
MaxBatch == 2
MaxDevices == 6
MaxPending == 1
MaxLoops == 2
MaxMessages == 2
\* settings.rate_limit_per_minute and the free tier of TIER_LIMITS (60, and
\* 60/1000/10000 in the program), scaled
RequestsPerMinute == 2
LimitMinute == 2
LimitHour == 3
LimitDay == 4

\* ------------------------------------------------------- program constants
\* timedelta(hours=1) in units of 30 minutes
GapThreshold == 2

\* RateLimiter.window_size, seconds
window_size == 60

\* WebhookService.max_retries
max_retries == 3

\* @celery_app.task(bind=True, max_retries=3) of send_webhook_retry
task_max_retries == 3

\* self.retry(countdown=60)
retry_countdown == 60
max_items == 1000
max_devices_free == 5

\* Python None for a nullable column or an optional field
NoVal == -1

Users == {"u1", "u2"}
DeviceIds == {"d1"}
GeofenceIds == {"g1", "g2"}
Locations == {0, 1}
Times == 0..MaxTime
Shapes == {{0}, {0, 1}}

VARIABLES
    devices,                \* devices table: id -> row
    trajectories,           \* trajectories table: sequence of rows, id = index
    trajectory_points,      \* trajectory_points table: sequence of rows
    cache,                  \* cache key device:{id}:location
    geofences,              \* geofences table: id -> row
    device_geofence_states, \* GeofenceMonitoringService.device_geofence_states
    device_state_mirror,    \* cache key device_state:{id}
    published,              \* messages published on channel geofence_events
    clock,                  \* wall clock (datetime.utcnow(), NOW()), 30-minute units
    response,               \* outcome of the last operation
    pc,                     \* concurrent update_device_location calls: position
    req,                    \*   the call's location_data
    sel,                    \*   the trajectory row its session loaded
    row_lock,               \* holder of the row lock on the device row
    base,                   \* the tables and cache when the concurrent calls began
    unix_time,              \* time.time(), whole seconds
    redis,                  \* redis_client.redis: "absent" (None), "up", "failing"
    zset,                   \* sorted set rate_limit:{identifier}
    requests,               \* InMemoryRateLimiter.requests[rate_limit:{identifier}]
    counters,               \* keys rate_limit:{user}:{window}:{bucket}
    calls,                  \* history of the admission checks and their outcomes
    lpc,                    \* concurrent admission checks: position
    lnow,                   \*   the check's local now
    current_requests,       \*   the check's zcard result
    tier_counts,            \*   the check's minute/hour/day counts
    webhooks,               \* cache keys webhook:{user_id}:{geofence_id}
    task_queue,             \* Celery messages for send_webhook_retry, not yet run
    posts,                  \* history of the POSTs made and what each scheduled
    events_sent,            \* number of messages handed to _process_event
    bulk_input,             \* the updates given to the last bulk_update_locations
    bulk_results,           \* the results it returned
    session,                \* the AsyncSession the services are given
    deliveries,             \* cache lists webhook_deliveries:{url}:{day}
    processor,              \* webhook_processor, its consuming loops and the channel
    response_cache          \* ResponseCacheManager: cache keys response_cache:* and cache_tag:*

device_vars == <<devices, trajectories, trajectory_points, cache>>
monitor_vars == <<device_geofence_states, device_state_mirror, published>>
worker_vars == <<pc, req, sel, row_lock, base>>
limiter_vars == <<unix_time, redis, zset, requests, counters, calls>>
check_vars == <<lpc, lnow, current_requests, tier_counts>>
webhook_vars == <<webhooks, task_queue, posts, events_sent>>
bulk_vars == <<bulk_input, bulk_results>>
session_vars == <<session>>
infra_vars == <<deliveries, processor, response_cache>>
aux_vars == <<worker_vars, limiter_vars, check_vars, webhook_vars, bulk_vars, session_vars, infra_vars>>

service_vars ==
    <<device_vars, geofences, monitor_vars, clock, response, worker_vars, webhook_vars,
      bulk_vars, session_vars, infra_vars>>

vars == <<device_vars, geofences, monitor_vars, clock, response, aux_vars>>

NoGeofence ==
    [exists |-> FALSE, user_id |-> "u1", name |-> "", is_active |-> FALSE, geometry |-> {}]
NoCache == [latitude |-> NoVal, timestamp |-> NoVal, speed |-> NoVal]

LocationUpdate(p, ts, speed) == [latitude |-> p, timestamp |-> ts, speed |-> speed]
NoLocation == LocationUpdate(NoVal, NoVal, NoVal)

\* a session with nothing pending
NoSession == [new |-> <<>>, rollbacks |-> 0, inactive |-> FALSE]

Response(op, status) == [op |-> op, status |-> status, triggered |-> {}]

\* ------------------------------------------------------------ DeviceService

\* the lookup by id alone
FindDeviceAnyOwner(devs, device_id, user_id) ==
    /\ device_id \in DOMAIN devs
    /\ devs[device_id].exists

\* select(Device).where(Device.id == device_id, Device.user_id == user_id)
FindDevice(devs, device_id, user_id) ==
    /\ device_id \in DOMAIN devs
    /\ devs[device_id].exists
    /\ devs[device_id].user_id = user_id

get_device_by_id(device_id, user_id) == FindDevice(devices, device_id, user_id)

\* the open-segment query with a strict comparison
ActiveTrajectoriesStrict(trajs, device_id, current_time) ==
    {i \in 1..Len(trajs) :
        /\ trajs[i].device_id = device_id
        /\ trajs[i].end_time > current_time - GapThreshold}

\* The open-segment query of _add_trajectory_point: trajectories of the device
\* whose end_time >= current_time - 1 hour.
ActiveTrajectories(trajs, device_id, current_time) ==
    {i \in 1..Len(trajs) :
        /\ trajs[i].device_id = device_id
        /\ trajs[i].end_time >= current_time - GapThreshold}

\* ORDER BY end_time DESC LIMIT 1; rows with equal end_time come in any order
SelectTrajectory(trajs, device_id, current_time) ==
    LET act == ActiveTrajectories(trajs, device_id, current_time)
    IN {i \in act : \A j \in act : trajs[j].end_time <= trajs[i].end_time}

NewTrajectory(device_id, current_time) ==
    [device_id |-> device_id, start_time |-> current_time, end_time |-> current_time,
     point_count |-> 0, max_speed |-> NoVal, total_distance |-> NoVal]

\* if location_data.speed: if not max_speed or speed > max_speed: max_speed = speed
UpdateMaxSpeed(max_speed, speed) ==
    IF speed # NoVal /\ speed # 0
    THEN IF max_speed = NoVal \/ max_speed = 0 \/ speed > max_speed
         THEN speed ELSE max_speed
    ELSE max_speed

\* the statistics update without the count
ExtendTrajectoryUncounted(t, loc) ==
    [t EXCEPT !.end_time = loc.timestamp,
              !.max_speed = UpdateMaxSpeed(t.max_speed, loc.speed)]

\* Update trajectory statistics
ExtendTrajectory(t, loc) ==
    [t EXCEPT !.end_time = loc.timestamp,
              !.point_count = t.point_count + 1,
              !.max_speed = UpdateMaxSpeed(t.max_speed, loc.speed)]

TrajectoryPoint(trajectory_id, loc) ==
    [trajectory_id |-> trajectory_id, location |-> loc.latitude,
     timestamp |-> loc.timestamp, speed |-> loc.speed]

\* _add_trajectory_point on the tables trajs/pts, appending to segment i
\* (i = 0: no open segment was found, a new one is opened)
AddTrajectoryPoint(trajs, device_id, loc, i) ==
    LET withNew == IF i = 0 THEN Append(trajs, NewTrajectory(device_id, loc.timestamp))
                   ELSE trajs
        id == IF i = 0 THEN Len(trajs) + 1 ELSE i
    IN [withNew EXCEPT ![id] = ExtendTrajectory(withNew[id], loc)]

TrajectoryChoices(trajs, device_id, loc) ==
    IF SelectTrajectory(trajs, device_id, loc.timestamp) = {}
    THEN {0}
    ELSE SelectTrajectory(trajs, device_id, loc.timestamp)

TargetId(trajs, i) == IF i = 0 THEN Len(trajs) + 1 ELSE i

\* device.last_location / last_seen assignment
SetDeviceLocation(row, loc) ==
    [row EXCEPT !.last_location = loc.latitude, !.last_seen = loc.timestamp]

LocationCache(loc) ==
    [latitude |-> loc.latitude, timestamp |-> loc.timestamp, speed |-> loc.speed]

\* location_data.timestamp or datetime.utcnow()
CurrentTime(loc) == IF loc.timestamp = NoVal THEN clock ELSE loc.timestamp

Stamped(loc) == [loc EXCEPT !.timestamp = CurrentTime(loc)]

\* the tables and the cache key that update_device_location writes
Snapshot ==
    [devices |-> devices, trajectories |-> trajectories,
     trajectory_points |-> trajectory_points, cache |-> cache]

\* The tables and the cache after update_device_location ran to completion on
\* the state st (one outcome per row the open-segment query may return)
SerialUpdate(st, device_id, loc) ==
    {[devices |-> [st.devices EXCEPT ![device_id] = SetDeviceLocation(@, loc)],
      cache |-> [st.cache EXCEPT ![device_id] = LocationCache(loc)],
      trajectories |-> AddTrajectoryPoint(st.trajectories, device_id, loc, i),
      trajectory_points |->
          Append(st.trajectory_points, TrajectoryPoint(TargetId(st.trajectories, i), loc))] :
        i \in TrajectoryChoices(st.trajectories, device_id, loc)}

\* update_device_location, run to completion on one session
update_device_location(device_id, user_id, location_data) ==
    /\ Len(trajectory_points) < MaxPoints
    /\ IF ~get_device_by_id(device_id, user_id)
       THEN /\ response' = Response("update_device_location", "not_found")
            /\ UNCHANGED <<devices, trajectories, trajectory_points, cache>>
       ELSE /\ \E st \in SerialUpdate([devices |-> devices, trajectories |-> trajectories,
                                       trajectory_points |-> trajectory_points,
                                       cache |-> cache],
                                      device_id, Stamped(location_data)) :
                /\ devices' = st.devices
                /\ cache' = st.cache
                /\ trajectories' = st.trajectories
                /\ trajectory_points' = st.trajectory_points
            /\ response' = Response("update_device_location", "ok")
    /\ UNCHANGED <<aux_vars, geofences, device_geofence_states, device_state_mirror, published, clock>>

\* ---------------------------------------------------- bulk_update_locations
\* An item of the updates list.  kind tells what its processing meets: "ok",
\* "invalid" (LocationUpdate(**update_data) raises), "select_error" (the store
\* raises on the first statement), "commit_error" (the store raises on the
\* flush or the commit, after the cache write).
BulkItem(device_id, ts, kind) ==
    [device_id |-> device_id, latitude |-> 0, timestamp |-> ts, speed |-> NoVal, kind |-> kind]

NoResults == [successful |-> <<>>, failed |-> <<>>, total_processed |-> 0]

ItemLocation(st, item) ==
    LocationUpdate(item.latitude,
                   IF item.timestamp = NoVal THEN clock ELSE item.timestamp,
                   item.speed)

\* One pass of the loop body on the store st with the shared session broken
\* or not: the outcomes it can have.  After a store error the session either
\* stays unusable until a rollback (which the loop never issues) or has
\* recovered, as recovers tells.
ProcessItem(st, item, user_id, broken, recovers) ==
    IF item.kind = "invalid"
    THEN {[store |-> st, ok |-> FALSE, error |-> "invalid", broken |-> broken]}
    ELSE IF broken \/ item.kind = "select_error"
    THEN {[store |-> st, ok |-> FALSE, error |-> "store", broken |-> broken \/ ~recovers]}
    ELSE IF ~FindDevice(st.devices, item.device_id, user_id)
    THEN {[store |-> st, ok |-> FALSE, error |-> "Device not found", broken |-> broken]}
    ELSE IF item.kind = "commit_error"
    THEN {[store |-> [st EXCEPT !.cache[item.device_id] = LocationCache(ItemLocation(st, item))],
           ok |-> FALSE, error |-> "store", broken |-> ~recovers]}
    ELSE {[store |-> s2, ok |-> TRUE, error |-> "", broken |-> broken] :
            s2 \in SerialUpdate(st, item.device_id, ItemLocation(st, item))}

AddResult(results, item, o) ==
    IF o.ok
    THEN [results EXCEPT !.successful = Append(@, item.device_id)]
    ELSE [results EXCEPT !.failed = Append(@, [device_id |-> item.device_id, error |-> o.error])]

\* for update_data in updates[lo..hi]: try ... except ..., from the store,
\* the results and the session state of acc (the range is run half by half)
RECURSIVE LoopOver(_, _, _, _, _, _)
LoopOver(acc, updates, lo, hi, user_id, recovers) ==
    IF lo > hi
    THEN {acc}
    ELSE IF lo = hi
    THEN {[store |-> o.store, results |-> AddResult(acc.results, updates[lo], o),
           broken |-> o.broken] :
            o \in ProcessItem(acc.store, updates[lo], user_id, acc.broken, recovers)}
    ELSE LET mid == (lo + hi) \div 2
         IN  UNION {LoopOver(a, updates, mid + 1, hi, user_id, recovers) :
                    a \in LoopOver(acc, updates, lo, mid, user_id, recovers)}

\* the loop that stops at the first item that fails
RECURSIVE BulkRunAborting(_, _, _, _, _, _)
BulkRunAborting(st, results, updates, user_id, broken, recovers) ==
    IF updates = <<>>
    THEN {[store |-> st, results |-> results]}
    ELSE UNION {IF o.ok
                THEN BulkRunAborting(o.store, AddResult(results, Head(updates), o),
                                     Tail(updates), user_id, o.broken, recovers)
                ELSE {[store |-> o.store, results |-> AddResult(results, Head(updates), o)]} :
                o \in ProcessItem(st, Head(updates), user_id, broken, recovers)}

\* for update_data in updates: try ... except ...
BulkRun(st, results, updates, user_id, broken, recovers) ==
    {[store |-> a.store, results |-> a.results] :
        a \in LoopOver([store |-> st, results |-> results, broken |-> broken],
                       updates, 1, Len(updates), user_id, recovers)}

\* DeviceService.bulk_update_locations
bulk_update_locations(user_id, updates, recovers) ==
    /\ Len(trajectory_points)
          + Cardinality({i \in DOMAIN updates : updates[i].device_id \in DOMAIN devices})
          <= MaxPoints
    /\ \E r \in BulkRun(Snapshot, [NoResults EXCEPT !.total_processed = Len(updates)],
                        updates, user_id, FALSE, recovers) :
          /\ devices' = r.store.devices
          /\ cache' = r.store.cache
          /\ trajectories' = r.store.trajectories
          /\ trajectory_points' = r.store.trajectory_points
          /\ bulk_results' = r.results
    /\ bulk_input' = updates
    /\ response' = Response("bulk_update_locations", "ok")
    /\ UNCHANGED <<geofences, monitor_vars, clock, worker_vars, limiter_vars, check_vars,
                   webhook_vars, session_vars, infra_vars>>

\* ------------------------------------- POST /devices/locations/bulk (endpoint)
\* BulkLocationUpdate.validate_locations_order: the timestamps that are set,
\* in list order, never decrease
validate_locations_order(locations) ==
    LET timestamps == SelectSeq([i \in DOMAIN locations |-> locations[i].timestamp],
                                LAMBDA t : t # NoVal)
    IN  \A i \in 2..Len(timestamps) : timestamps[i] >= timestamps[i - 1]

\* locations: List[LocationUpdate] = Field(..., min_items=1, max_items=1000)
\* with a size limit of one less
BulkLocationUpdateShort(locations) ==
    /\ Len(locations) >= 1
    /\ Len(locations) <= max_items - 1
    /\ validate_locations_order(locations)

\* locations: List[LocationUpdate] = Field(..., min_items=1, max_items=1000)
BulkLocationUpdate(locations) ==
    /\ Len(locations) >= 1
    /\ Len(locations) <= max_items
    /\ validate_locations_order(locations)

\* the route handler: body validation (422), the size check (400), the service
bulk_update_locations_endpoint(user_id, locations, recovers) ==
    IF ~BulkLocationUpdate(locations)
    THEN /\ response' = Response("bulk_update_locations", "422")
         /\ bulk_input' = locations
         /\ UNCHANGED <<devices, cache, trajectories, trajectory_points, bulk_results,
                        geofences, monitor_vars, clock, worker_vars, limiter_vars,
                        check_vars, webhook_vars, session_vars, infra_vars>>
    ELSE IF Len(locations) > max_items
    THEN /\ response' = Response("bulk_update_locations", "400")
         /\ bulk_input' = locations
         /\ UNCHANGED <<devices, cache, trajectories, trajectory_points, bulk_results,
                        geofences, monitor_vars, clock, worker_vars, limiter_vars,
                        check_vars, webhook_vars, session_vars, infra_vars>>
    ELSE bulk_update_locations(user_id, locations, recovers)

\* ------------------------------------------- DeviceService: device records
\* Variables the device operations leave alone
other_vars ==
    <<geofences, monitor_vars, clock, worker_vars, limiter_vars, check_vars, webhook_vars,
      bulk_vars, infra_vars>>

\* ids uuid4 hands out, in the order it hands them out; an id is used once
RegistryIds == [i \in 1..MaxDevices |-> <<"r", i>>]
Identifiers == {"imei1"}
Unset == "unset"
NoIdentifier == "null"

\* a row of an id that was never given to a device, and of a deleted device
FreshRow ==
    [exists |-> FALSE, user_id |-> "none", last_location |-> NoVal, last_seen |-> NoVal,
     device_identifier |-> NoIdentifier]
DeletedRow == [FreshRow EXCEPT !.user_id = "deleted"]

\* Device(user_id=..., device_name=..., device_identifier=...)
NewDevice(user_id, device_identifier) ==
    [FreshRow EXCEPT !.exists = TRUE, !.user_id = user_id,
                     !.device_identifier = device_identifier]

FreshIds(devs) == {d \in DOMAIN devs : devs[d].user_id = "none"}

\* the id uuid4 gives next
NextId(devs) ==
    RegistryIds[CHOOSE i \in 1..MaxDevices :
                    /\ RegistryIds[i] \in FreshIds(devs)
                    /\ \A j \in 1..(i - 1) : RegistryIds[j] \notin FreshIds(devs)]

\* INSERT of the pending rows, in the order they were added
RECURSIVE Flush(_, _)
Flush(devs, pending) ==
    IF pending = <<>>
    THEN devs
    ELSE Flush([devs EXCEPT ![NextId(devs)] = Head(pending)], Tail(pending))

\* the unique index on devices.device_identifier (NULLs do not collide)
UniqueIdentifiers(devs) ==
    ~\E a, b \in DOMAIN devs :
        /\ a # b
        /\ devs[a].exists /\ devs[b].exists
        /\ devs[a].device_identifier # NoIdentifier
        /\ devs[a].device_identifier = devs[b].device_identifier

\* session.commit(): what the flush of the pending rows and of the changed
\* rows devs leaves.  The flush fails on a constraint (the transaction is
\* rolled back and the session is inactive until rollback() is called); the
\* store may fail before the flush (commit_ok false: the pending rows stay).
session_commit(devs, pending, commit_ok) ==
    IF session.inactive
    THEN [ok |-> FALSE, devices |-> devices,
          session |-> [session EXCEPT !.new = pending]]
    ELSE IF ~commit_ok
    THEN [ok |-> FALSE, devices |-> devices,
          session |-> [session EXCEPT !.new = pending]]
    ELSE IF ~UniqueIdentifiers(Flush(devs, pending))
    THEN [ok |-> FALSE, devices |-> devices,
          session |-> [session EXCEPT !.new = pending, !.inactive = TRUE]]
    ELSE [ok |-> TRUE, devices |-> Flush(devs, pending),
          session |-> [session EXCEPT !.new = <<>>]]

\* create_device: db.add(device); commit; refresh.  An exception of the
\* commit propagates.
create_device(device_data, user_id, commit_ok) ==
    /\ Cardinality(FreshIds(devices)) > Len(session.new)
    /\ LET c == session_commit(devices,
                       Append(session.new, NewDevice(user_id, device_data.device_identifier)),
                       commit_ok)
       IN  /\ devices' = c.devices
           /\ session' = c.session
           /\ response' = Response("create_device",
                                         IF c.ok THEN "created" ELSE "error")
    /\ UNCHANGED <<trajectories, trajectory_points, cache, other_vars>>

\* update_device: the fields that are set are assigned, then commit
update_device(device_id, user_id, device_data, commit_ok) ==
    /\ Cardinality(FreshIds(devices)) >= Len(session.new)
    /\ IF session.inactive
       THEN /\ response' = Response("update_device", "error")
            /\ UNCHANGED <<devices, session>>
       ELSE IF ~get_device_by_id(device_id, user_id)
       THEN /\ response' = Response("update_device", "not_found")
            /\ UNCHANGED <<devices, session>>
       ELSE LET changed ==
                    IF device_data.device_identifier = Unset
                    THEN devices
                    ELSE [devices EXCEPT ![device_id].device_identifier =
                                              device_data.device_identifier]
                c == session_commit(changed, session.new, commit_ok)
            IN  /\ devices' = c.devices
                /\ session' = c.session
                /\ response' = Response("update_device",
                                              IF c.ok THEN "ok" ELSE "error")
    /\ UNCHANGED <<trajectories, trajectory_points, cache, other_vars>>

\* the rows the delete of the device takes with it (cascade)
CascadeTrajectories(trajs, device_id) ==
    [i \in DOMAIN trajs |->
        IF trajs[i].device_id = device_id THEN [trajs[i] EXCEPT !.device_id = "deleted"]
        ELSE trajs[i]]

CascadePoints(trajs, points, device_id) ==
    SelectSeq(points, LAMBDA pt : trajs[pt.trajectory_id].device_id # device_id)

\* delete_device: db.delete(device); commit; then the cache key is deleted
delete_device(device_id, user_id, commit_ok, delete_ok) ==
    /\ Cardinality(FreshIds(devices)) >= Len(session.new)
    /\ IF session.inactive
       THEN /\ response' = Response("delete_device", "error")
            /\ UNCHANGED <<devices, session, trajectories, trajectory_points, cache>>
       ELSE IF ~get_device_by_id(device_id, user_id)
       THEN /\ response' = Response("delete_device", "not_found")
            /\ UNCHANGED <<devices, session, trajectories, trajectory_points, cache>>
       ELSE LET c == session_commit([devices EXCEPT ![device_id] = DeletedRow], session.new, commit_ok)
            IN  /\ devices' = c.devices
                /\ session' = c.session
                /\ IF c.ok
                   THEN /\ trajectories' = CascadeTrajectories(trajectories, device_id)
                        /\ trajectory_points' =
                              CascadePoints(trajectories, trajectory_points, device_id)
                        /\ cache' = IF delete_ok THEN [cache EXCEPT ![device_id] = NoCache]
                                    ELSE cache
                   ELSE UNCHANGED <<trajectories, trajectory_points, cache>>
                /\ response' = Response("delete_device",
                                              IF c.ok /\ delete_ok THEN "ok" ELSE "error")
    /\ UNCHANGED other_vars

\* get_device_trajectory with the endpoint's 404, and get_device_statistics:
\* they read only
get_device_trajectory(device_id, user_id) ==
    /\ response' = Response("get_device_trajectory",
                                  IF get_device_by_id(device_id, user_id) THEN "ok"
                                  ELSE "not_found")
    /\ UNCHANGED <<devices, session, trajectories, trajectory_points, cache, other_vars>>

get_device_statistics(device_id, user_id) ==
    /\ response' = Response("get_device_statistics",
                                  IF get_device_by_id(device_id, user_id) THEN "ok"
                                  ELSE "not_found")
    /\ UNCHANGED <<devices, session, trajectories, trajectory_points, cache, other_vars>>

\* update_device_location when redis_client.setex raises or not: the cache
\* write comes before the commit, and nothing catches its exception
update_device_location_setex(device_id, user_id, location_data, setex_ok) ==
    IF ~session.inactive /\ (setex_ok \/ ~get_device_by_id(device_id, user_id))
    THEN update_device_location(device_id, user_id, location_data)
    ELSE /\ Len(trajectory_points) < MaxPoints
         /\ response' = Response("update_device_location", "error")
         /\ UNCHANGED <<devices, session, trajectories, trajectory_points, cache, other_vars>>

\* the request ends: get_async_session closes the session, the next request
\* gets a new one
close_session ==
    /\ session # NoSession
    /\ session' = NoSession
    /\ UNCHANGED <<devices, trajectories, trajectory_points, cache, response, other_vars>>

\* ----------------------------------------------------------- BatchProcessor

\* CASE WHEN id = ... THEN ST_Point(...) END: the first matching WHEN wins
RECURSIVE CaseLocation(_, _)
CaseLocation(batch, device_id) ==
    IF batch = <<>> THEN NoVal
    ELSE IF Head(batch).device_id = device_id THEN Head(batch).latitude
    ELSE CaseLocation(Tail(batch), device_id)

BatchDeviceIds(batch) == {batch[k].device_id : k \in 1..Len(batch)}

\* UPDATE devices SET last_location = CASE ... END, last_seen = NOW()
\* WHERE id = ANY(:device_ids)
process_location_updates_batch(batch) ==
    /\ devices' = [d \in DeviceIds |->
                     IF d \in BatchDeviceIds(batch) /\ devices[d].exists
                     THEN [devices[d] EXCEPT !.last_location = CaseLocation(batch, d),
                                             !.last_seen = clock]
                     ELSE devices[d]]
    /\ response' = Response("process_location_updates_batch", "ok")
    /\ UNCHANGED <<aux_vars, trajectories, trajectory_points, cache, geofences,
                   device_geofence_states, device_state_mirror, published, clock>>

\* ---------------------------------------------------------- GeofenceService

NewGeofence(user_id, name, geometry, is_active) ==
    [exists |-> TRUE, user_id |-> user_id, name |-> name, is_active |-> is_active,
     geometry |-> geometry]

\* create_geofence: the row gets a fresh uuid; geometry is the stored value
\* of _convert_geometry_to_wkt
create_geofence(user_id, name, geometry, is_active) ==
    /\ \E g \in GeofenceIds :
        /\ ~geofences[g].exists
        /\ geofences' = [geofences EXCEPT ![g] = NewGeofence(user_id, name, geometry, is_active)]
    /\ response' = Response("create_geofence", "ok")
    /\ UNCHANGED <<aux_vars, devices, trajectories, trajectory_points, cache,
                   device_geofence_states, device_state_mirror, published, clock>>

\* select(Geofence).where(Geofence.id == geofence_id, Geofence.user_id == user_id)
get_geofence(user_id, geofence_id) ==
    geofences[geofence_id].exists /\ geofences[geofence_id].user_id = user_id

\* update_geofence with is_active and geometry set (an unset field keeps its value)
update_geofence(user_id, geofence_id, geometry, is_active) ==
    /\ IF get_geofence(user_id, geofence_id)
       THEN /\ geofences' = [geofences EXCEPT ![geofence_id].geometry = geometry,
                                              ![geofence_id].is_active = is_active]
            /\ response' = Response("update_geofence", "ok")
       ELSE /\ UNCHANGED geofences
            /\ response' = Response("update_geofence", "not_found")
    /\ UNCHANGED <<aux_vars, devices, trajectories, trajectory_points, cache,
                   device_geofence_states, device_state_mirror, published, clock>>

delete_geofence(user_id, geofence_id) ==
    /\ IF get_geofence(user_id, geofence_id)
       THEN /\ geofences' = [geofences EXCEPT ![geofence_id] = NoGeofence]
            /\ response' = Response("delete_geofence", "ok")
       ELSE /\ UNCHANGED geofences
            /\ response' = Response("delete_geofence", "not_found")
    /\ UNCHANGED <<aux_vars, devices, trajectories, trajectory_points, cache,
                   device_geofence_states, device_state_mirror, published, clock>>

\* user_id = :user AND is_active = True AND ST_Contains(geometry, point)
get_geofences_containing_point(gfs, user_id, p) ==
    {g \in GeofenceIds :
        /\ gfs[g].exists
        /\ gfs[g].user_id = user_id
        /\ gfs[g].is_active
        /\ p \in gfs[g].geometry}

\* the first query of check_point_in_geofences without the is_active filter
CheckedGeofencesAnyState(gfs, user_id, geofence_ids) ==
    {g \in GeofenceIds :
        /\ gfs[g].exists
        /\ gfs[g].user_id = user_id
        /\ geofence_ids # {} => g \in geofence_ids}

\* the first query of check_point_in_geofences: the user's active geofences,
\* among geofence_ids when the request names some
CheckedGeofences(gfs, user_id, geofence_ids) ==
    {g \in GeofenceIds :
        /\ gfs[g].exists
        /\ gfs[g].user_id = user_id
        /\ gfs[g].is_active
        /\ geofence_ids # {} => g \in geofence_ids}

\* check_point_in_geofences: ST_Contains on each row loaded; the rows of a
\* result are distinct, so the two lists are kept as sets
check_point_in_geofences(user_id, p, geofence_ids) ==
    LET loaded == CheckedGeofences(geofences, user_id, geofence_ids)
        inside == {g \in loaded : p \in geofences[g].geometry}
    IN  /\ response' = [op |-> "check_point_in_geofences", status |-> "ok", triggered |-> {},
                        inside_geofences |-> inside,
                        outside_geofences |-> loaded \ inside,
                        total_checked |-> Cardinality(loaded)]
        /\ UNCHANGED <<aux_vars, devices, trajectories, trajectory_points, cache, geofences,
                       device_geofence_states, device_state_mirror, published, clock>>

\* the service call get_geofences_containing_point and its result
containing_point(user_id, p) ==
    /\ response' = [op |-> "get_geofences_containing_point", status |-> "ok",
                    triggered |-> {},
                    inside_geofences |-> get_geofences_containing_point(geofences, user_id, p)]
    /\ UNCHANGED <<aux_vars, devices, trajectories, trajectory_points, cache, geofences,
                   device_geofence_states, device_state_mirror, published, clock>>

\* _convert_geometry_to_wkt: a polygon keeps its exterior ring (a ring that
\* is not closed is closed), a circle becomes the ring around its centre
Ring(coords) == IF coords[1] = coords[Len(coords)] THEN coords ELSE Append(coords, coords[1])

Buffer(center, radius) ==
    <<<<center[1] + radius, center[2]>>, <<center[1], center[2] - radius>>,
      <<center[1] - radius, center[2]>>, <<center[1], center[2] + radius>>,
      <<center[1] + radius, center[2]>>>>

convert_geometry_to_wkt(geometry) ==
    IF geometry.type = "Circle"
    THEN [type |-> "POLYGON", exterior |-> Buffer(geometry.center, geometry.radius)]
    ELSE [type |-> "POLYGON", exterior |-> Ring(geometry.coordinates[1])]

\* _convert_wkt_to_geometry for a polygon: list(geom.exterior.coords)
convert_wkt_to_geometry(wkt) == [type |-> "Polygon", coordinates |-> <<wkt.exterior>>]

\* GET /geofences/{geofence_id}: the detail is built with a fixed geometry
get_geofence_endpoint(user_id, geofence_id) ==
    /\ response' =
          IF get_geofence(user_id, geofence_id)
          THEN [op |-> "get_geofence", status |-> "ok", triggered |-> {},
                geofence_id |-> geofence_id,
                geometry |-> [type |-> "Polygon", coordinates |-> <<>>]]
          ELSE [op |-> "get_geofence", status |-> "not_found", triggered |-> {},
                geofence_id |-> geofence_id,
                geometry |-> [type |-> "Polygon", coordinates |-> <<>>]]
    /\ UNCHANGED <<aux_vars, devices, trajectories, trajectory_points, cache, geofences,
                   device_geofence_states, device_state_mirror, published, clock>>

\* ------------------------------------------ QueryOptimizer / BatchProcessor
\* WHERE g.user_id = :user_id AND ST_Contains(g.geometry, ST_Point(...))
get_geofence_intersections_optimized(gfs, user_id, p) ==
    {g \in GeofenceIds :
        /\ gfs[g].exists
        /\ gfs[g].user_id = user_id
        /\ p \in gfs[g].geometry}

\* JOIN geofences g ON g.user_id = :user_id WHERE ST_Contains(g.geometry,
\* dl.location): the (device, geofence) rows for the locations given
bulk_geofence_check(gfs, device_locations, user_id) ==
    UNION {{<<device_locations[i].device_id, g>> :
                g \in {h \in GeofenceIds :
                        /\ gfs[h].exists
                        /\ gfs[h].user_id = user_id
                        /\ device_locations[i].latitude \in gfs[h].geometry}} :
           i \in DOMAIN device_locations}

\* ------------------------------------------------ GeofenceMonitoringService

GeofenceEvent(device_id, geofence_id, event_type) ==
    [device_id |-> device_id, geofence_id |-> geofence_id, event_type |-> event_type]

\* The orders in which a for loop may visit the members of a set
RECURSIVE Orderings(_)
Orderings(S) ==
    IF S = {} THEN {<<>>}
    ELSE UNION {{<<x>> \o rest : rest \in Orderings(S \ {x})} : x \in S}

EventsOf(device_id, order, event_type) ==
    [k \in 1..Len(order) |-> GeofenceEvent(device_id, order[k], event_type)]

\* process_location_update, run to completion
process_location_update(device_id, p, user_id) ==
    LET current_geofence_ids == get_geofences_containing_point(geofences, user_id, p)
        previous_geofence_ids == device_geofence_states[device_id]
        entered_geofences == current_geofence_ids \ previous_geofence_ids
        exited_geofences == previous_geofence_ids \ current_geofence_ids
    IN
    /\ \E ent \in Orderings(entered_geofences), ext \in Orderings(exited_geofences) :
           published' = published \o EventsOf(device_id, ent, "enter")
                                  \o EventsOf(device_id, ext, "exit")
    /\ device_geofence_states' =
           [device_geofence_states EXCEPT ![device_id] = current_geofence_ids]
    /\ device_state_mirror' =
           [device_state_mirror EXCEPT ![device_id] = current_geofence_ids]
    /\ response' = Response("process_location_update", "ok")
    /\ UNCHANGED <<aux_vars, devices, trajectories, trajectory_points, cache, geofences, clock>>

\* -------------------------------------------------------------------- tasks

\* process_geofence_check: the loop over the geofences appends nothing to
\* triggered_geofences
process_geofence_check(device_id, p, gfs) ==
    /\ response' = Response("process_geofence_check", "completed")
    /\ UNCHANGED <<aux_vars, devices, trajectories, trajectory_points, cache, geofences,
                   device_geofence_states, device_state_mirror, published, clock>>

\* ------------------------------- update_device_location, one await at a time
\* Each call runs on a session of its own.  The store is PostgreSQL at READ
\* COMMITTED: a statement sees what was committed before it began, and the
\* UPDATE of the device row that the session autoflushes ahead of the
\* trajectory SELECT holds the row lock until the session commits.

Workers == {"w1", "w2"}

NoSelection == [id |-> 0, row |-> NewTrajectory("d1", NoVal)]

\* device = await get_device_by_id(...); the attribute assignments that follow
\* touch the session's copy only
LoadDevice(q, device_id, location_data) ==
    /\ pc[q] = "idle"
    /\ get_device_by_id(device_id, "u1")
    /\ pc' = [pc EXCEPT ![q] = "loaded"]
    /\ req' = [req EXCEPT ![q] = Stamped(location_data)]
    /\ base' = IF \A w \in Workers : pc[w] = "idle" THEN Snapshot ELSE base
    /\ UNCHANGED <<device_vars, geofences, monitor_vars, clock, response, sel, row_lock,
                   limiter_vars, check_vars, webhook_vars, bulk_vars, session_vars, infra_vars>>

\* await redis_client.setex(f"device:{device_id}:location", 3600, ...)
CacheLocation(q, device_id) ==
    /\ pc[q] = "loaded"
    /\ cache' = [cache EXCEPT ![device_id] = LocationCache(req[q])]
    /\ pc' = [pc EXCEPT ![q] = "cached"]
    /\ UNCHANGED <<devices, trajectories, trajectory_points, geofences, monitor_vars,
                   clock, response, req, sel, row_lock, base, limiter_vars, check_vars, webhook_vars, bulk_vars, session_vars, infra_vars>>

\* await db.execute(select(Trajectory)...): autoflush of the device UPDATE
\* (waits for the row lock), then the open-segment query
SelectOpenTrajectory(q, device_id) ==
    /\ pc[q] = "cached"
    /\ row_lock = "free"
    /\ row_lock' = q
    /\ \E i \in TrajectoryChoices(trajectories, device_id, req[q]) :
          sel' = [sel EXCEPT ![q] =
                    [id |-> i,
                     row |-> IF i = 0 THEN NewTrajectory(device_id, req[q].timestamp)
                             ELSE trajectories[i]]]
    /\ pc' = [pc EXCEPT ![q] = "selected"]
    /\ UNCHANGED <<device_vars, geofences, monitor_vars, clock, response, req, base,
                   limiter_vars, check_vars, webhook_vars, bulk_vars, session_vars, infra_vars>>

\* The rows the session writes for its trajectory: the values computed from
\* the row it loaded
WriteTrajectory(trajs, selection, loc) ==
    IF selection.id = 0
    THEN Append(trajs, ExtendTrajectory(selection.row, loc))
    ELSE [trajs EXCEPT ![selection.id] = ExtendTrajectory(selection.row, loc)]

\* await db.commit(): the device row, the trajectory and the point become
\* visible, the row lock is released
CommitUpdate(q, device_id) ==
    /\ pc[q] = "selected"
    /\ devices' = [devices EXCEPT ![device_id] = SetDeviceLocation(@, req[q])]
    /\ trajectories' = WriteTrajectory(trajectories, sel[q], req[q])
    /\ trajectory_points' =
           Append(trajectory_points,
                  TrajectoryPoint(TargetId(trajectories, sel[q].id), req[q]))
    /\ row_lock' = "free"
    /\ pc' = [pc EXCEPT ![q] = "done"]
    /\ response' = Response("update_device_location", "ok")
    /\ UNCHANGED <<cache, geofences, monitor_vars, clock, req, sel, base, limiter_vars, check_vars, webhook_vars, bulk_vars, session_vars, infra_vars>>

\* ------------------------------------------------------------- rate limiter
\* One identifier (one key).  Instants the clock takes: around the edges of a
\* window, and around the edges of the minute, hour and day buckets.
WindowInstants == {0, 1, 59, 60, 61}
BucketInstants == {0, 59, 60, 3599, 3600, 86399, 86400}

Windows == {"minute", "hour", "day"}
Period == [minute |-> 60, hour |-> 3600, day |-> 24 * 3600]
TIER_LIMITS == [minute |-> LimitMinute, hour |-> LimitHour, day |-> LimitDay]

Min(S) == CHOOSE x \in S : \A y \in S : x <= y

Call(by, at, allowed, retry_after) ==
    [by |-> by, at |-> at, allowed |-> allowed, retry_after |-> retry_after]

\* --- the sorted set as the Redis server keeps it: members and the key's expiry
EmptyZSet == [members |-> {}, expires |-> NoVal]

\* the key as a command issued at server time t finds it
Live(z, t) ==
    IF z.members = {} \/ (z.expires # NoVal /\ t >= z.expires) THEN EmptyZSet ELSE z

ZRemRangeByScore(z, lo, hi) ==
    LET kept == {m \in z.members : m < lo \/ m > hi}
    IN  IF kept = {} THEN EmptyZSet ELSE [z EXCEPT !.members = kept]

ZCard(z) == Cardinality(z.members)

\* zadd(key, {str(now): now}): the member is the text of the second, so a
\* second that is already a member is not added again
ZAdd(z, now) == [z EXCEPT !.members = @ \cup {now}]

Expire(z, t, ttl) == [z EXCEPT !.expires = t + ttl]

\* zrange(key, 0, 0, withscores=True) and the reset time computed from it
ResetTime(z, now) ==
    IF z.members # {} THEN Min(z.members) + window_size ELSE now + window_size

\* RateLimiter.is_allowed with no other check in between
RateLimiter_is_allowed(z, now) ==
    LET pruned == ZRemRangeByScore(Live(z, now), 0, now - window_size)
    IN  IF ZCard(pruned) >= RequestsPerMinute
        THEN [zset |-> pruned, allowed |-> FALSE, retry_after |-> ResetTime(pruned, now) - now]
        ELSE [zset |-> Expire(ZAdd(pruned, now), now, window_size + 1),
              allowed |-> TRUE, retry_after |-> 0]

SeqMin(q) == Min({q[i] : i \in DOMAIN q})

InWindow(now, t) == t > now - window_size

\* InMemoryRateLimiter.is_allowed (no await inside: one step).  With one key,
\* _cleanup_old_requests filters nothing the window filter leaves.
InMemoryRateLimiter_is_allowed(reqs, now) ==
    LET kept == SelectSeq(reqs, LAMBDA t : InWindow(now, t))
    IN  IF Len(kept) >= RequestsPerMinute
        THEN [requests |-> kept, allowed |-> FALSE,
              retry_after |-> ((IF Len(kept) > 0 THEN SeqMin(kept) ELSE now) + window_size) - now]
        ELSE [requests |-> Append(kept, now), allowed |-> TRUE, retry_after |-> 0]

\* check_rate_limit, run to completion
check_rate_limit ==
    /\ Len(calls) < MaxRequests
    /\ \A q \in DOMAIN lpc : lpc[q] = "idle"
    /\ IF redis = "absent"
       THEN LET r == InMemoryRateLimiter_is_allowed(requests, unix_time)
            IN  /\ requests' = r.requests
                /\ calls' = Append(calls, Call("memory", unix_time, r.allowed, r.retry_after))
                /\ UNCHANGED zset
       ELSE IF redis = "up"
       THEN LET r == RateLimiter_is_allowed(zset, unix_time)
            IN  /\ zset' = r.zset
                /\ calls' = Append(calls, Call("redis", unix_time, r.allowed, r.retry_after))
                /\ UNCHANGED requests
       \* except Exception: allow the request
       ELSE /\ calls' = Append(calls, Call("except", unix_time, TRUE, 0))
            /\ UNCHANGED <<zset, requests>>
    /\ UNCHANGED <<service_vars, unix_time, redis, counters, check_vars>>

\* RedisClient.connect(): redis.from_url builds the client, lazily
connect ==
    /\ redis = "absent"
    /\ redis' = "up"
    /\ UNCHANGED <<service_vars, unix_time, zset, requests, counters, calls, check_vars>>

\* the server stops answering (commands raise) and answers again
ServerDown ==
    /\ redis = "up"
    /\ redis' = "failing"
    /\ UNCHANGED <<service_vars, unix_time, zset, requests, counters, calls, check_vars>>

ServerBack ==
    /\ redis = "failing"
    /\ redis' = "up"
    /\ UNCHANGED <<service_vars, unix_time, zset, requests, counters, calls, check_vars>>

Advance(instants) ==
    /\ \E t \in instants : t > unix_time /\ unix_time' = t
    /\ UNCHANGED <<service_vars, redis, zset, requests, counters, calls, check_vars>>

\* ------------------------------------------------------ EnhancedRateLimiter
\* One user of one tier.  A counter key is named by its window and the number
\* of the clock-aligned bucket, now // period.
TierKeys == {<<w, t \div Period[w]>> : w \in Windows, t \in WindowInstants \cup BucketInstants}

NoCounter == [n |-> 0, expires |-> NoVal]
NoCounts == [w \in Windows |-> 0]

Key(w, now) == <<w, now \div Period[w]>>

\* redis.get(key) at server time t; int(count) if count else 0
Get(cs, k, t) ==
    IF cs[k].n = 0 \/ (cs[k].expires # NoVal /\ t >= cs[k].expires) THEN 0 ELSE cs[k].n

ReadCounts(cs, now, t) == [w \in Windows |-> Get(cs, Key(w, now), t)]

\* the if / elif / elif over the three limits
Exceeded(counts) ==
    IF counts.minute >= TIER_LIMITS.minute THEN "minute"
    ELSE IF counts.hour >= TIER_LIMITS.hour THEN "hour"
    ELSE IF counts.day >= TIER_LIMITS.day THEN "day"
    ELSE "none"

RetryAfter(w, now) == Period[w] - (now % Period[w])

\* the pipeline: incr and expire of the three keys, executed at server time t
IncrAll(cs, now, t) ==
    [k \in TierKeys |->
        IF k = Key(k[1], now)
        THEN [n |-> Get(cs, k, t) + 1, expires |-> t + Period[k[1]]]
        ELSE cs[k]]

TierOutcome(counts, now) ==
    IF Exceeded(counts) = "none"
    THEN Call("tier", now, TRUE, 0)
    ELSE Call("tier", now, FALSE, RetryAfter(Exceeded(counts), now))

\* EnhancedRateLimiter.check_rate_limit with no other check in between
EnhancedRateLimiter_check_rate_limit ==
    /\ Len(calls) < MaxRequests
    /\ \A q \in DOMAIN lpc : lpc[q] = "idle"
    /\ redis # "failing"
    /\ redis' = "up"
    /\ LET counts == ReadCounts(counters, unix_time, unix_time)
       IN  /\ counters' = IF Exceeded(counts) = "none"
                          THEN IncrAll(counters, unix_time, unix_time)
                          ELSE counters
           /\ calls' = Append(calls, TierOutcome(counts, unix_time))
    /\ UNCHANGED <<service_vars, unix_time, zset, requests, check_vars>>

\* ------------------------------------ admission checks, one await at a time
InFlight == Cardinality({q \in DOMAIN lpc : lpc[q] # "idle"})

\* now = int(time.time()); await zremrangebyscore(key, 0, window_start)
PruneLog(q) ==
    /\ lpc[q] = "idle"
    /\ redis = "up"
    /\ Len(calls) + InFlight < MaxRequests
    /\ lnow' = [lnow EXCEPT ![q] = unix_time]
    /\ zset' = ZRemRangeByScore(Live(zset, unix_time), 0, unix_time - window_size)
    /\ lpc' = [lpc EXCEPT ![q] = "pruned"]
    /\ UNCHANGED <<service_vars, unix_time, redis, requests, counters, calls,
                   current_requests, tier_counts>>

\* current_requests = await zcard(key)
CountLog(q) ==
    /\ lpc[q] = "pruned"
    /\ current_requests' = [current_requests EXCEPT ![q] = ZCard(Live(zset, unix_time))]
    /\ lpc' = [lpc EXCEPT ![q] = "counted"]
    /\ UNCHANGED <<service_vars, limiter_vars, lnow, tier_counts>>

\* the branch on current_requests: zrange and deny, or zadd, expire and allow
AdmitOrDeny(q) ==
    /\ lpc[q] = "counted"
    /\ IF current_requests[q] >= RequestsPerMinute
       THEN /\ calls' = Append(calls, Call("redis", lnow[q], FALSE,
                                   ResetTime(Live(zset, unix_time), lnow[q]) - lnow[q]))
            /\ UNCHANGED zset
       ELSE /\ zset' = Expire(ZAdd(Live(zset, unix_time), lnow[q]), unix_time, window_size + 1)
            /\ calls' = Append(calls, Call("redis", lnow[q], TRUE, 0))
    /\ lpc' = [lpc EXCEPT ![q] = "idle"]
    /\ UNCHANGED <<service_vars, unix_time, redis, requests, counters,
                   lnow, current_requests, tier_counts>>

\* now = int(time.time()); the three awaited gets
ReadTierCounts(q) ==
    /\ lpc[q] = "idle"
    /\ redis # "failing"
    /\ redis' = "up"
    /\ Len(calls) + InFlight < MaxRequests
    /\ lnow' = [lnow EXCEPT ![q] = unix_time]
    /\ tier_counts' = [tier_counts EXCEPT ![q] = ReadCounts(counters, unix_time, unix_time)]
    /\ lpc' = [lpc EXCEPT ![q] = "read"]
    /\ UNCHANGED <<service_vars, unix_time, zset, requests, counters, calls, current_requests>>

\* the limit checks on the counts read, and await pipe.execute() if allowed
IncrTierCounts(q) ==
    /\ lpc[q] = "read"
    /\ counters' = IF Exceeded(tier_counts[q]) = "none"
                   THEN IncrAll(counters, lnow[q], unix_time)
                   ELSE counters
    /\ calls' = Append(calls, TierOutcome(tier_counts[q], lnow[q]))
    /\ lpc' = [lpc EXCEPT ![q] = "idle"]
    /\ UNCHANGED <<service_vars, unix_time, redis, zset, requests,
                   lnow, current_requests, tier_counts>>

\* ------------------------------------------------------------ WebhookService
\* One subscription key, webhook:{u1}:{g1}; one sink URL.  The Celery broker is
\* reliable: apply_async does not raise, so the except Exception branch of
\* send_webhook is not entered.
non_webhook_vars ==
    <<device_vars, geofences, monitor_vars, clock, response, worker_vars,
      limiter_vars, check_vars, bulk_vars, session_vars, infra_vars>>

WebhookKeys == {<<"u1", "g1">>}
\* every key webhook:{user_id}:{geofence_id}
SubscriptionKeys == Users \X GeofenceIds
EventTypes == {"enter", "exit"}
EventIds == {1}
EventMasks == {{"enter"}, {"enter", "exit"}}

\* what the sink answers: an HTTP status, or 0 for httpx.RequestError
SuccessStatuses == {200, 201, 202, 204}
Outcomes == SuccessStatuses \cup {500, 0}

retry_delays == <<1, 5, 15>>

WebhookConfig(events, is_active) == [exists |-> TRUE, events |-> events, is_active |-> is_active]
NoWebhook == [exists |-> FALSE, events |-> {}, is_active |-> FALSE]

WebhookEvent(id, user_id, geofence_id, event_type) ==
    [id |-> id, user_id |-> user_id, geofence_id |-> geofence_id, event_type |-> event_type]

\* the arguments of one send_webhook_retry message, and its request.retries
RetryTask(webhook_config, event, retry_count, retries, countdown) ==
    [config |-> webhook_config, event |-> event, retry_count |-> retry_count,
     retries |-> retries, countdown |-> countdown]

Smaller(a, b) == IF a < b THEN a ELSE b

\* the delay taken one place too far in the schedule
RetryDelayShifted(retry_count) ==
    retry_delays[Smaller(retry_count + 1, Len(retry_delays) - 1) + 1]

RetryDelay(retry_count) == retry_delays[Smaller(retry_count, Len(retry_delays) - 1) + 1]

\* WebhookService._handle_retry: the messages it sends and the value it returns
handle_retry(webhook_config, event, retry_count) ==
    IF retry_count < max_retries
    THEN [scheduled |-> <<RetryTask(webhook_config, event, retry_count + 1, 0,
                                    RetryDelay(retry_count))>>,
          success |-> TRUE]
    ELSE [scheduled |-> <<>>, success |-> FALSE]

\* WebhookService.send_webhook when the sink answers status
send_webhook(webhook_config, event, retry_count, status) ==
    IF event.event_type \notin webhook_config.events
    THEN [posted |-> FALSE, scheduled |-> <<>>, success |-> TRUE]
    ELSE IF status \in SuccessStatuses
    THEN [posted |-> TRUE, scheduled |-> <<>>, success |-> TRUE]
    ELSE [posted |-> TRUE] @@ handle_retry(webhook_config, event, retry_count)

\* does the subscription stored now ask for this event
Subscribed(event) ==
    LET S == webhooks[<<event.user_id, event.geofence_id>>]
    IN  S.exists /\ S.is_active /\ event.event_type \in S.events

SeqToBag(q) == [t \in {q[i] : i \in DOMAIN q} |-> Cardinality({i \in DOMAIN q : q[i] = t})]

\* what one run of send_webhook leaves behind: the POST in the history, the
\* messages on the queue
RecordAttempt(event, retry_count, status, r, scheduled) ==
    /\ posts' = IF r.posted
                THEN Append(posts, [event |-> event.id, retry_count |-> retry_count,
                                    status |-> status, subscribed |-> Subscribed(event),
                                    scheduled |-> scheduled])
                ELSE posts
    /\ Len(posts') <= MaxPosts

\* WebhookEventProcessor._process_event for a message that names its user
process_event(event, status) ==
    /\ event.id \in EventIds
    /\ events_sent' = events_sent + 1
    /\ LET webhook_config == webhooks[<<event.user_id, event.geofence_id>>]
       IN  IF webhook_config.exists /\ webhook_config.is_active
           THEN LET r == send_webhook(webhook_config, event, 0, status)
                IN  /\ RecordAttempt(event, 0, status, r, r.scheduled)
                    /\ task_queue' = task_queue (+) SeqToBag(r.scheduled)
           ELSE UNCHANGED <<posts, task_queue>>
    /\ UNCHANGED <<non_webhook_vars, webhooks>>

\* Task.retry of Celery: a copy of the message with retries + 1, unless that
\* passes max_retries
self_retry(task) ==
    IF task.retries + 1 > task_max_retries
    THEN <<>>
    ELSE <<[task EXCEPT !.retries = @ + 1, !.countdown = retry_countdown]>>

\* the Celery task send_webhook_retry.  self.retry raises after it has sent
\* the message; the raise is caught by except Exception, whose handler calls
\* self.retry again.
send_webhook_retry(task, status) ==
    /\ BagIn(task, task_queue)
    /\ LET r == send_webhook(task.config, task.event, task.retry_count, status)
           again == IF r.success THEN <<>> ELSE self_retry(task) \o self_retry(task)
           scheduled == r.scheduled \o again
       IN  /\ RecordAttempt(task.event, task.retry_count, status, r, scheduled)
           /\ task_queue' = (task_queue (-) SetToBag({task})) (+) SeqToBag(scheduled)
    /\ UNCHANGED <<non_webhook_vars, webhooks, events_sent>>

\* WebhookService.get_webhooks_for_geofence: redis get of the key
get_webhooks_for_geofence(whs, user_id, geofence_id) == whs[<<user_id, geofence_id>>]

\* register_webhook with a key that leaves out the user
register_webhook_by_geofence(user_id, geofence_id, webhook_config) ==
    /\ webhooks' = [k \in DOMAIN webhooks |->
                      IF k[2] = geofence_id THEN webhook_config ELSE webhooks[k]]
    /\ UNCHANGED <<non_webhook_vars, task_queue, posts, events_sent>>

\* WebhookService.register_webhook: redis set of the key
register_webhook(user_id, geofence_id, webhook_config) ==
    /\ webhooks' = [webhooks EXCEPT ![<<user_id, geofence_id>>] = webhook_config]
    /\ UNCHANGED <<non_webhook_vars, task_queue, posts, events_sent>>

\* WebhookService.remove_webhook: redis delete of the key
remove_webhook(user_id, geofence_id) ==
    /\ webhooks' = [webhooks EXCEPT ![<<user_id, geofence_id>>] = NoWebhook]
    /\ UNCHANGED <<non_webhook_vars, task_queue, posts, events_sent>>

\* ---------------------------------------------------- WebhookDeliveryTracker
\* RedisClient.lpush: the value goes to the head of the list, nothing is
\* trimmed
lpush(list, value) == <<value>> \o list

\* WebhookDeliveryTracker.record_delivery_attempt: one record on the list of
\* the day and the URL.  WebhookService.send_webhook and the task
\* send_webhook_retry do not call it, and no tracker is constructed.
record_delivery_attempt(webhook_url, event_type, success) ==
    deliveries' = lpush(deliveries, [webhook_url |-> webhook_url,
                                     event_type |-> event_type,
                                     success |-> success])

\* ---------------------------------------------------- WebhookEventProcessor
\* The consuming loops start_processing has begun (each with its own pubsub
\* subscription) and the messages published on geofence_events
LoopIds == 1..MaxLoops
MessageIds == 1..MaxMessages
\* the message of type "subscribe" that listen() yields first
SubscribeConfirmation == 0

\* webhook_processor after construction: processing is False, nothing is
\* subscribed, nothing was published
NoProcessor ==
    [processing |-> FALSE,
     loops |-> [i \in LoopIds |-> "none"],
     inbox |-> [i \in LoopIds |-> <<>>],
     handed |-> [m \in MessageIds |-> 0],
     sent |-> 0]

non_processor_vars ==
    <<device_vars, geofences, monitor_vars, clock, response, worker_vars, limiter_vars,
      check_vars, webhook_vars, bulk_vars, session_vars, deliveries, response_cache>>

ActiveLoops == {i \in LoopIds : processor.loops[i] = "listening"}

\* start_processing up to its first wait in pubsub.listen(): nothing when
\* processing is set, else the flag is set and a subscription is made, whose
\* first message is the confirmation of the subscription
start_processing ==
    /\ ~processor.processing
    /\ \E i \in LoopIds :
          /\ processor.loops[i] = "none"
          /\ \A j \in LoopIds : j < i => processor.loops[j] # "none"
          /\ processor' = [processor EXCEPT !.processing = TRUE,
                                            !.loops[i] = "listening",
                                            !.inbox[i] = <<SubscribeConfirmation>>]
    /\ UNCHANGED non_processor_vars

\* stop_processing
stop_processing ==
    /\ processor' = [processor EXCEPT !.processing = FALSE]
    /\ UNCHANGED non_processor_vars

\* a publish on geofence_events: every subscription receives the message
publish_event ==
    /\ processor.sent < MaxMessages
    /\ processor' = [processor EXCEPT
                        !.sent = @ + 1,
                        !.inbox = [i \in LoopIds |->
                                     IF processor.loops[i] = "listening"
                                     THEN Append(@[i], processor.sent + 1)
                                     ELSE @[i]]]
    /\ UNCHANGED non_processor_vars

\* one turn of "async for message in pubsub.listen()" in loop i: break (and
\* the finally clause) when processing is unset; else a message of type
\* "message" is handed to _process_event, whose exception, if any (raises),
\* is logged
listen(i, raises) ==
    /\ processor.loops[i] = "listening"
    /\ processor.inbox[i] # <<>>
    /\ LET message == Head(processor.inbox[i])
       IN  IF ~processor.processing
           THEN processor' = [processor EXCEPT !.loops[i] = "ended", !.inbox[i] = <<>>,
                                               !.processing = FALSE]
           ELSE IF message = SubscribeConfirmation
           THEN processor' = [processor EXCEPT !.inbox[i] = Tail(@)]
           ELSE processor' = [processor EXCEPT !.inbox[i] = Tail(@),
                                               !.handed[message] = @ + 1]
    /\ UNCHANGED non_processor_vars


\* ----------------------------------------------------- ResponseCacheManager
\* Two cache keys, two tags; the cache client is a Redis client offering get,
\* setex, sadd, smembers, expire and delete.  Times are unix_time, in seconds.
CacheKeys == {"k1", "k2"}
Tags == {"t1", "t2"}
default_ttl == 300
tag_grace == 60
Ttls == {60, default_ttl}
CacheInstants == {0, 100, 200, 400}

NoEntry == [cached |-> FALSE, tags |-> {}, expires |-> NoVal]
NoTagSet == [members |-> {}, expires |-> NoVal]

EmptyResponseCache ==
    [entries |-> [k \in CacheKeys |-> NoEntry], tag_sets |-> [t \in Tags |-> NoTagSet]]

non_cache_vars ==
    <<device_vars, geofences, monitor_vars, clock, response, worker_vars, limiter_vars,
      check_vars, webhook_vars, bulk_vars, session_vars, deliveries, processor>>

\* a key as a command issued at time now finds it: gone once its expiry passed
LiveEntry(e, now) == IF e.cached /\ now < e.expires THEN e ELSE NoEntry
LiveTagSet(ts, now) == IF ts.members # {} /\ now < ts.expires THEN ts ELSE NoTagSet

\* ResponseCacheManager.get_cached_response
get_cached_response(rc, cache_key, now) == LiveEntry(rc.entries[cache_key], now)

\* ResponseCacheManager.cache_response: setex of the entry, then for each tag
\* sadd of the key to the tag set and expire of the tag set at ttl + 60
cache_response(cache_key, ttl, tags) ==
    /\ response_cache' =
          [entries |-> [response_cache.entries EXCEPT
                           ![cache_key] = [cached |-> TRUE, tags |-> tags,
                                           expires |-> unix_time + ttl]],
           tag_sets |-> [t \in Tags |->
                           IF t \in tags
                           THEN [members |-> LiveTagSet(response_cache.tag_sets[t],
                                                        unix_time).members
                                                \cup {cache_key},
                                 expires |-> unix_time + ttl + tag_grace]
                           ELSE response_cache.tag_sets[t]]]
    /\ UNCHANGED non_cache_vars

\* ResponseCacheManager.invalidate_by_tags: the keys in the tag sets are
\* deleted, then the tag sets
invalidate_by_tags(tags) ==
    /\ LET cache_keys == UNION {LiveTagSet(response_cache.tag_sets[t], unix_time).members :
                                   t \in tags}
       IN  response_cache' =
              [entries |-> [k \in CacheKeys |->
                              IF k \in cache_keys THEN NoEntry
                              ELSE response_cache.entries[k]],
               tag_sets |-> [t \in Tags |->
                               IF t \in tags THEN NoTagSet
                               ELSE response_cache.tag_sets[t]]]
    /\ UNCHANGED non_cache_vars


\* --------------------------------------------------------------------- Init
InitTables(devs) ==
    /\ devices = devs
    /\ trajectories = <<>>
    /\ trajectory_points = <<>>
    /\ cache = [d \in DOMAIN devs |-> NoCache]
    /\ geofences = [g \in GeofenceIds |-> NoGeofence]
    /\ device_geofence_states = [d \in DeviceIds |-> {}]
    /\ device_state_mirror = [d \in DeviceIds |-> {}]
    /\ published = <<>>
    /\ clock = 0
    /\ response = Response("none", "none")
    /\ pc = [q \in Workers |-> "idle"]
    /\ req = [q \in Workers |-> NoLocation]
    /\ sel = [q \in Workers |-> NoSelection]
    /\ row_lock = "free"
    /\ base = Snapshot
    /\ unix_time = 0
    /\ redis = "absent"
    /\ zset = EmptyZSet
    /\ requests = <<>>
    /\ counters = [k \in TierKeys |-> NoCounter]
    /\ calls = <<>>
    /\ lpc = [q \in Workers |-> "idle"]
    /\ lnow = [q \in Workers |-> 0]
    /\ current_requests = [q \in Workers |-> 0]
    /\ tier_counts = [q \in Workers |-> NoCounts]
    /\ webhooks = [k \in SubscriptionKeys |-> NoWebhook]
    /\ task_queue = EmptyBag
    /\ posts = <<>>
    /\ events_sent = 0
    /\ bulk_input = <<>>
    /\ bulk_results = NoResults
    /\ session = NoSession
    /\ deliveries = <<>>
    /\ processor = NoProcessor
    /\ response_cache = EmptyResponseCache

InitWith(ids) ==
    InitTables([d \in ids |->
                  [exists |-> TRUE, user_id |-> "u1", last_location |-> NoVal,
                   last_seen |-> NoVal]])

Init == InitWith(DeviceIds)

\* two devices of one user
Fleet == {"d1", "d2"}

InitFleet == InitWith(Fleet)

\* ------------------------------------------------------------------ actions
Tick ==
    /\ clock < MaxTime
    /\ clock' = clock + 1
    /\ UNCHANGED <<aux_vars, devices, trajectories, trajectory_points, cache, geofences,
                   device_geofence_states, device_state_mirror, published, response>>

UpdateLocation ==
    \E d \in DeviceIds, u \in Users, p \in Locations, ts \in Times, s \in {NoVal, 1} :
        update_device_location(d, u, LocationUpdate(p, ts, s))

\* Ingestion alone: single updates with client-supplied timestamps
Next == UpdateLocation

Spec == Init /\ [][Next]_vars

\* Ingestion against the clock: updates stamped by the client or by the server,
\* the bulk UPDATE, the passage of time
UpdateLocationClock ==
    \E d \in DeviceIds, ts \in Times \cup {NoVal} :
        update_device_location(d, "u1", LocationUpdate(0, ts, NoVal))

BatchUpdate ==
    \E d \in DeviceIds, p \in Locations, q \in Locations :
        process_location_updates_batch(
            <<[device_id |-> d, latitude |-> p], [device_id |-> d, latitude |-> q]>>)

NextClock == UpdateLocationClock \/ BatchUpdate \/ Tick

SpecClock == Init /\ [][NextClock]_vars

\* Ingestion with geofences: updates without telemetry, geofence CRUD, the
\* monitoring service and the geofence-check task
UpdateLocationPlain ==
    \E d \in DeviceIds, p \in Locations :
        update_device_location(d, "u1", LocationUpdate(p, NoVal, NoVal))

CreateGeofence ==
    \E u \in Users, sh \in Shapes, a \in BOOLEAN : create_geofence(u, "home", sh, a)

UpdateGeofence ==
    \E u \in Users, g \in GeofenceIds, sh \in Shapes, a \in BOOLEAN :
        update_geofence(u, g, sh, a)

DeleteGeofence ==
    \E u \in Users, g \in GeofenceIds : delete_geofence(u, g)

ProcessLocationUpdate ==
    /\ Len(published) < MaxCalls
    /\ \E d \in DeviceIds, p \in Locations, u \in Users : process_location_update(d, p, u)

GeofenceCheckTask ==
    \E d \in DeviceIds, p \in Locations : process_geofence_check(d, p, geofences)

NextGeo ==
    \/ UpdateLocationPlain
    \/ CreateGeofence
    \/ UpdateGeofence
    \/ DeleteGeofence
    \/ ProcessLocationUpdate
    \/ GeofenceCheckTask

SpecGeo == Init /\ [][NextGeo]_vars

\* Two concurrent update_device_location calls for one device, after at most
\* a few completed updates
EarlierUpdate ==
    /\ \A w \in Workers : pc[w] = "idle"
    /\ Len(trajectory_points) + Cardinality(Workers) < MaxPoints
    /\ \E p \in Locations, ts \in Times :
          update_device_location("d1", "u1", LocationUpdate(p, ts, NoVal))

Load == \E q \in Workers, p \in Locations, ts \in Times :
            LoadDevice(q, "d1", LocationUpdate(p, ts, NoVal))

CacheWrite == \E q \in Workers : CacheLocation(q, "d1")

SelectStep == \E q \in Workers : SelectOpenTrajectory(q, "d1")

Commit == \E q \in Workers : CommitUpdate(q, "d1")

NextConc == EarlierUpdate \/ Load \/ CacheWrite \/ SelectStep \/ Commit

SpecConc == Init /\ [][NextConc]_vars

\* The admission check of the middleware, the cache coming and going
AdvanceWindow == Advance(WindowInstants)

NextLimiter == check_rate_limit \/ connect \/ ServerDown \/ ServerBack \/ AdvanceWindow

SpecLimiter == Init /\ [][NextLimiter]_vars

\* The tiered limiter, one check at a time
AdvanceBucket == Advance(BucketInstants)

NextTier == EnhancedRateLimiter_check_rate_limit \/ AdvanceBucket

SpecTier == Init /\ [][NextTier]_vars

\* Two admission checks for one identifier in flight
Prune == \E q \in Workers : PruneLog(q)

Count == \E q \in Workers : CountLog(q)

Decide == \E q \in Workers : AdmitOrDeny(q)

ReadTier == \E q \in Workers : ReadTierCounts(q)

IncrTier == \E q \in Workers : IncrTierCounts(q)

NextLimiterConc ==
    connect \/ Prune \/ Count \/ Decide \/ ReadTier \/ IncrTier \/ AdvanceWindow

SpecLimiterConc == Init /\ [][NextLimiterConc]_vars

\* Webhook dispatch: subscriptions change while events and retries are served
RegisterWebhook ==
    \E events \in EventMasks, is_active \in BOOLEAN :
        /\ webhooks[<<"u1", "g1">>] # WebhookConfig(events, is_active)
        /\ register_webhook("u1", "g1", WebhookConfig(events, is_active))

RemoveWebhook ==
    /\ webhooks[<<"u1", "g1">>].exists
    /\ remove_webhook("u1", "g1")

ProcessEvent ==
    \E event_type \in EventTypes, status \in Outcomes :
        process_event(WebhookEvent(events_sent + 1, "u1", "g1", event_type), status)

RunRetryTask ==
    \E task \in BagToSet(task_queue), status \in Outcomes : send_webhook_retry(task, status)

NextWebhook == RegisterWebhook \/ RemoveWebhook \/ ProcessEvent \/ RunRetryTask

SpecWebhook == Init /\ [][NextWebhook]_vars

\* Trajectory segmentation: two devices of one user, client-supplied timestamps
UpdateFleetLocation ==
    \E d \in Fleet, p \in Locations, ts \in Times :
        update_device_location(d, "u1", LocationUpdate(p, ts, NoVal))

NextTraj == UpdateFleetLocation

SpecTraj == InitFleet /\ [][NextTraj]_vars

\* Bulk ingestion: at most one earlier update, then one bulk request of user u1
UnknownDevice == "dx"

BulkItems ==
    {BulkItem(d, ts, "ok") : d \in Fleet, ts \in Times}
        \cup {BulkItem(UnknownDevice, 0, "ok"), BulkItem("d1", 0, "invalid"),
              BulkItem("d1", 0, "select_error"), BulkItem("d1", 0, "commit_error")}

Batches == UNION {[1..n -> BulkItems] : n \in 1..MaxBatch}

EarlierFleetUpdate ==
    /\ bulk_input = <<>>
    /\ Len(trajectory_points) + MaxBatch < MaxPoints
    /\ UpdateFleetLocation

BulkUpdate ==
    /\ bulk_input = <<>>
    /\ \E updates \in Batches, recovers \in BOOLEAN :
          bulk_update_locations("u1", updates, recovers)

NextBulk == EarlierFleetUpdate \/ BulkUpdate

SpecBulk == InitFleet /\ [][NextBulk]_vars

\* Bulk endpoint: at most one earlier update, then one request of user u1.
\* The long requests hold one item of d1, in the last place.
LongRequest(n) ==
    [i \in 1..n |-> IF i = n THEN BulkItem("d1", 0, "ok") ELSE BulkItem(UnknownDevice, 0, "ok")]

BulkRequests ==
    UNION {[1..n -> BulkItems \cup {BulkItem("d1", NoVal, "ok")}] : n \in 1..MaxBatch}
        \cup {LongRequest(max_items), LongRequest(max_items + 1)}

BulkRequest ==
    /\ bulk_input = <<>>
    /\ \E locations \in BulkRequests, recovers \in BOOLEAN :
          bulk_update_locations_endpoint("u1", locations, recovers)

NextBulkApi == EarlierFleetUpdate \/ BulkRequest

SpecBulkApi == InitFleet /\ [][NextBulkApi]_vars

\* Device operations of two users on two devices, one of each user
OwnedDevices ==
    [d \in Fleet |-> NewDevice(IF d = "d1" THEN "u1" ELSE "u2", NoIdentifier)]

InitOwned == InitTables(OwnedDevices)

CallIds == Fleet \cup {UnknownDevice}
DeviceData == {[device_identifier |-> x] : x \in {Unset, NoIdentifier} \cup Identifiers}

LocateDevice ==
    \E d \in CallIds, u \in Users, setex_ok \in BOOLEAN :
        update_device_location_setex(d, u, LocationUpdate(0, 0, NoVal), setex_ok)

ChangeDevice ==
    \E d \in DOMAIN devices \cup {UnknownDevice}, u \in Users, data \in DeviceData,
       commit_ok \in BOOLEAN :
        update_device(d, u, data, commit_ok)

DeleteDevice ==
    \E d \in DOMAIN devices \cup {UnknownDevice}, u \in Users,
       commit_ok \in BOOLEAN, delete_ok \in BOOLEAN :
        delete_device(d, u, commit_ok, delete_ok)

ReadTrajectory == \E d \in CallIds, u \in Users : get_device_trajectory(d, u)

ReadStatistics == \E d \in CallIds, u \in Users : get_device_statistics(d, u)

CloseSession == close_session

NextOwned ==
    \/ LocateDevice
    \/ ChangeDevice
    \/ DeleteDevice
    \/ ReadTrajectory
    \/ ReadStatistics
    \/ CloseSession

SpecOwned == InitOwned /\ [][NextOwned]_vars

\* Device registration: u1 creates, changes and deletes devices; at most
\* MaxPending rows of failed commits wait in a session
InitRegistry == InitTables([d \in {RegistryIds[i] : i \in 1..MaxDevices} |-> FreshRow])

RegisterDevice ==
    /\ Len(session.new) <= MaxPending
    /\ \E x \in {NoIdentifier} \cup Identifiers, commit_ok \in BOOLEAN :
          create_device([device_identifier |-> x], "u1", commit_ok)

ChangeRegistered ==
    \E d \in DOMAIN devices, x \in {NoIdentifier} \cup Identifiers :
        update_device(d, "u1", [device_identifier |-> x], TRUE)

DeleteRegistered ==
    \E d \in DOMAIN devices : delete_device(d, "u1", TRUE, TRUE)

NextDevices ==
    \/ RegisterDevice
    \/ ChangeRegistered
    \/ DeleteRegistered
    \/ CloseSession

SpecDevices == InitRegistry /\ [][NextDevices]_vars

\* Geofences of two users: named geofences are created, changed, deleted
\* and queried
GeofenceNames == {"home", "work"}

CreateNamedGeofence ==
    \E u \in Users, n \in GeofenceNames, sh \in Shapes : create_geofence(u, n, sh, TRUE)

CheckPoint ==
    \E u \in Users, p \in Locations, ids \in SUBSET GeofenceIds :
        check_point_in_geofences(u, p, ids)

ContainingPoint == \E u \in Users, p \in Locations : containing_point(u, p)

NextFences ==
    \/ CreateNamedGeofence
    \/ UpdateGeofence
    \/ DeleteGeofence
    \/ CheckPoint
    \/ ContainingPoint

SpecFences == Init /\ [][NextFences]_vars

\* Geofence geometry: polygons and circles are created and read back
Vertices == {<<0, 0>>, <<0, 1>>, <<1, 1>>, <<1, 0>>}

Polygons ==
    {[type |-> "Polygon", coordinates |-> <<<<a, b, c, a>>>>] :
        a \in {<<0, 0>>}, b \in Vertices \ {<<0, 0>>}, c \in Vertices \ {<<0, 0>>}}

Circles == {[type |-> "Circle", center |-> c, radius |-> 1] : c \in {<<0, 0>>, <<1, 1>>}}

CreateShapedGeofence ==
    \E u \in Users, geometry \in Polygons \cup Circles :
        create_geofence(u, "home", convert_geometry_to_wkt(geometry), TRUE)

GetGeofence == \E u \in Users, g \in GeofenceIds : get_geofence_endpoint(u, g)

NextGeometry == CreateShapedGeofence \/ DeleteGeofence \/ GetGeofence

SpecGeometry == Init /\ [][NextGeometry]_vars

\* ================================================================== claims

LastUpdateAccepted ==
    response.op = "update_device_location" /\ response.status = "ok"

\* C1: after an accepted update_device_location the device's recorded
\* membership set equals the set of the owner's active geofences whose shape
\* contains the device's last point.
C1_MembershipEqualsContaining ==
    LastUpdateAccepted =>
        \A d \in DeviceIds :
            device_geofence_states[d] =
                get_geofences_containing_point(geofences, devices[d].user_id,
                                               devices[d].last_location)

\* The membership set of a stored point (empty before the first update)
MembersAt(gfs, row) ==
    IF row.last_location = NoVal THEN {}
    ELSE get_geofences_containing_point(gfs, row.user_id, row.last_location)

PublishedBy(d, seq) ==
    {[geofence_id |-> seq[k].geofence_id, event_type |-> seq[k].event_type] :
        k \in {j \in 1..Len(seq) : seq[j].device_id = d}}

Transitions(before, after) ==
    {[geofence_id |-> g, event_type |-> "enter"] : g \in after \ before}
        \cup {[geofence_id |-> g, event_type |-> "exit"] : g \in before \ after}

\* C2: an accepted location update emits exactly one enter event for each
\* geofence in the new membership set but not in the previous one, exactly one
\* exit event for each geofence in the previous set but not in the new one,
\* and no other event.
C2_EventsAreMembershipDiffs ==
    [][\A d \in DeviceIds, p \in Locations :
          update_device_location(d, "u1", LocationUpdate(p, NoVal, NoVal))
          /\ response'.status = "ok"
          => LET emitted == SubSeq(published', Len(published) + 1, Len(published'))
                 expected == Transitions(MembersAt(geofences, devices[d]),
                                         MembersAt(geofences', devices'[d]))
             IN /\ Len(published') >= Len(published)
                /\ SubSeq(published', 1, Len(published)) = published
                /\ Len(emitted) = Cardinality(expected)
                /\ PublishedBy(d, emitted) = expected]_vars

\* C3: the stored last_seen of a device never decreases from one state to
\* the next.
C3_LastSeenMonotonic ==
    [][\A d \in DeviceIds :
          devices[d].last_seen # NoVal => devices'[d].last_seen >= devices[d].last_seen]_vars

\* C4: an update whose timestamp is strictly earlier than the device's
\* last_seen is rejected with OUT_OF_ORDER and leaves the device row, the
\* cached location, the trajectories and the trajectory points unchanged.
C4_OutOfOrderRejected ==
    [][\A d \in DeviceIds, u \in Users, p \in Locations, ts \in Times, s \in {NoVal, 1} :
          /\ get_device_by_id(d, u)
          /\ devices[d].last_seen # NoVal
          /\ ts < devices[d].last_seen
          /\ update_device_location(d, u, LocationUpdate(p, ts, s))
          => /\ response'.status = "out_of_order"
             /\ UNCHANGED <<devices, cache, trajectories, trajectory_points>>]_vars

PointCounts(trajs) == [i \in 1..Len(trajs) |-> trajs[i].point_count]

\* C5: submitting the update the device received last (same point, same
\* timestamp) a second time adds no trajectory point, changes no trajectory's
\* point_count and emits no event.
C5_ReplayIsIdempotent ==
    [][\A d \in DeviceIds, u \in Users, p \in Locations, ts \in Times, s \in {NoVal, 1} :
          /\ get_device_by_id(d, u)
          /\ cache[d] = LocationCache(LocationUpdate(p, ts, s))
          /\ update_device_location(d, u, LocationUpdate(p, ts, s))
          => /\ trajectory_points' = trajectory_points
             /\ Len(trajectories') = Len(trajectories)
             /\ PointCounts(trajectories') = PointCounts(trajectories)
             /\ published' = published]_vars

SerialOrders(st, device_id, a, b) ==
    UNION {SerialUpdate(mid, device_id, b) : mid \in SerialUpdate(st, device_id, a)}
        \cup UNION {SerialUpdate(mid, device_id, a) : mid \in SerialUpdate(st, device_id, b)}

BothCallsReturned == \A w \in Workers : pc[w] = "done"

\* C6: when two concurrent update_device_location calls for one device have
\* returned, the device row, the trajectories, the trajectory points and the
\* cached location are those that running the two calls one after the other,
\* in one of the two orders, produces.
C6_ConcurrentUpdatesSerialise ==
    BothCallsReturned => Snapshot \in SerialOrders(base, "d1", req["w1"], req["w2"])

\* The store alone (device row, trajectories, points) is serialised by the
\* row lock.
C6_StoreSerialises ==
    BothCallsReturned =>
        \E st \in SerialOrders(base, "d1", req["w1"], req["w2"]) :
            /\ st.devices = devices
            /\ st.trajectories = trajectories
            /\ st.trajectory_points = trajectory_points

\* C7: the window log of the Redis limiter never holds more entries than
\* requests_per_minute, and no minute, hour or day counter of the tiered
\* limiter exceeds the tier's limit, whatever the interleaving of concurrent
\* admission checks.
C7_CountersNeverExceedLimit ==
    /\ ZCard(zset) <= RequestsPerMinute
    /\ \A k \in TierKeys : counters[k].n <= TIER_LIMITS[k[1]]

C7_LogNeverExceedsLimit == ZCard(zset) <= RequestsPerMinute

C7_TierCountersNeverExceedLimit == \A k \in TierKeys : counters[k].n <= TIER_LIMITS[k[1]]

ByRedis(k) == calls[k].by = "redis"

\* C8: when the first RequestsPerMinute + 1 requests of an identifier fall in
\* one window of 60 s (several of them possibly in the same second), the first
\* RequestsPerMinute are admitted and the next one is denied with
\* 0 < retry_after <= 60.
C8_OverLimitRequestDenied ==
    LET L == RequestsPerMinute
    IN  (/\ Len(calls) >= L + 1
         /\ \A k \in 1..(L + 1) : ByRedis(k)
         /\ calls[L + 1].at - calls[1].at < window_size)
        => /\ \A k \in 1..L : calls[k].allowed
           /\ ~calls[L + 1].allowed
           /\ calls[L + 1].retry_after > 0
           /\ calls[L + 1].retry_after <= window_size

\* the same with the requests in distinct seconds
C8_DistinctSeconds ==
    LET L == RequestsPerMinute
    IN  (/\ Len(calls) >= L + 1
         /\ \A k \in 1..(L + 1) : ByRedis(k)
         /\ \A j, k \in 1..(L + 1) : j # k => calls[j].at # calls[k].at
         /\ calls[L + 1].at - calls[1].at < window_size)
        => /\ \A k \in 1..L : calls[k].allowed
           /\ ~calls[L + 1].allowed
           /\ calls[L + 1].retry_after > 0
           /\ calls[L + 1].retry_after <= window_size

\* the requests the tiered limiter admitted in the W seconds that begin at t
AdmittedIn(t, w) ==
    {k \in DOMAIN calls :
        /\ calls[k].by = "tier"
        /\ calls[k].allowed
        /\ calls[k].at >= t
        /\ calls[k].at < t + Period[w]}

\* C9: in any interval of W consecutive seconds, W one of 60, 3600 and 86400,
\* wherever it begins, the tiered limiter admits at most the tier's limit for
\* that window.
C9_TierIsSlidingWindow ==
    \A w \in Windows : \A i \in DOMAIN calls :
        Cardinality(AdmittedIn(calls[i].at, w)) <= TIER_LIMITS[w]

\* the same for the clock-aligned intervals only
C9_AlignedWindows ==
    \A w \in Windows : \A i \in DOMAIN calls :
        Cardinality(AdmittedIn((calls[i].at \div Period[w]) * Period[w], w)) <= TIER_LIMITS[w]

\* the requests admitted in the window that ends with request k
AdmittedBefore(k) ==
    {j \in 1..(k - 1) : calls[j].allowed /\ InWindow(calls[k].at, calls[j].at)}

\* C10: a request checked while the cache is unavailable (no Redis client, or
\* a Redis call raises) is denied when the client has already been admitted
\* requests_per_minute times in the current window.
C10_UnavailableCacheStillLimits ==
    \A k \in DOMAIN calls :
        (calls[k].by \in {"memory", "except"}
            /\ Cardinality(AdmittedBefore(k)) >= RequestsPerMinute)
        => ~calls[k].allowed

\* the same for the requests checked with no Redis client
C10_AbsentClientStillLimits ==
    \A k \in DOMAIN calls :
        (calls[k].by = "memory" /\ Cardinality(AdmittedBefore(k)) >= RequestsPerMinute)
        => ~calls[k].allowed

Failed(status) == status \notin SuccessStatuses

PostsOf(e) == {i \in DOMAIN posts : posts[i].event = e}

\* C11: for one event and one subscription at most 4 POSTs are made (the
\* initial attempt and 3 retries), and the attempt that fails with no retries
\* left schedules nothing more.
C11_AtMostFourAttempts ==
    /\ \A e \in EventIds : Cardinality(PostsOf(e)) <= max_retries + 1
    /\ \A i \in DOMAIN posts :
          (posts[i].retry_count >= max_retries /\ Failed(posts[i].status))
              => posts[i].scheduled = <<>>

\* C12: a failed attempt with retries remaining schedules exactly one retry,
\* with retry_count one higher and with delay 1 s, 5 s, 15 s for the first,
\* second and third retry; an attempt answered 200, 201, 202 or 204 schedules
\* nothing.
C12_RetrySchedule ==
    \A i \in DOMAIN posts :
        LET p == posts[i]
        IN  /\ p.status \in {200, 201, 202, 204} => p.scheduled = <<>>
            /\ (Failed(p.status) /\ p.retry_count < 3) =>
                  /\ Len(p.scheduled) = 1
                  /\ p.scheduled[1].retry_count = p.retry_count + 1
                  /\ p.scheduled[1].countdown =
                        (CASE p.retry_count = 0 -> 1
                           [] p.retry_count = 1 -> 5
                           [] p.retry_count = 2 -> 15)
                  /\ p.scheduled[1].event.id = p.event

\* the three retries of one event were scheduled and the third was answered 200
C12_Witness ==
    \E i, j, k, l \in DOMAIN posts :
        /\ posts[i].retry_count = 0 /\ Failed(posts[i].status)
        /\ posts[j].retry_count = 1 /\ Failed(posts[j].status)
        /\ posts[k].retry_count = 2 /\ Failed(posts[k].status)
        /\ posts[l].retry_count = 3 /\ posts[l].status = 200

\* C13: every POST, initial or retry, is made while the subscription is
\* registered for the event's geofence, active and asks for the event's type.
C13_PostOnlyWhileSubscribed == \A i \in DOMAIN posts : posts[i].subscribed

\* the same for the initial attempts
C13_InitialAttempts ==
    \A i \in DOMAIN posts : posts[i].retry_count = 0 => posts[i].subscribed

\* the point a step persisted, and the device it belongs to
PointAdded == Len(trajectory_points') = Len(trajectory_points) + 1
AddedPoint == trajectory_points'[Len(trajectory_points')]
AddedDevice == trajectories'[AddedPoint.trajectory_id].device_id

\* trajectories of d open for extension at ts: end_time >= ts - 1 hour
OpenAt(d, ts) ==
    {i \in DOMAIN trajectories :
        trajectories[i].device_id = d /\ trajectories[i].end_time >= ts - 2}

AppendsToLatestOpen ==
    LET ts == AddedPoint.timestamp
        open == OpenAt(AddedDevice, ts)
        id == AddedPoint.trajectory_id
    IN  IF open # {}
        THEN /\ id \in open
             /\ \A j \in open : trajectories[j].end_time <= trajectories[id].end_time
             /\ Len(trajectories') = Len(trajectories)
        ELSE /\ id = Len(trajectories) + 1
             /\ Len(trajectories') = Len(trajectories) + 1
             /\ trajectories'[id].start_time = ts
             /\ trajectories'[id].end_time = ts
             /\ \A j \in DOMAIN trajectories :
                   /\ trajectories'[j].end_time = trajectories[j].end_time
                   /\ trajectories'[j].point_count = trajectories[j].point_count

\* C14: a location update of device d at time ts appends its point to the
\* trajectory of d with the greatest end_time among those with
\* end_time >= ts - 1 hour; if there is none it opens a new trajectory with
\* start_time = end_time = ts and leaves every earlier trajectory unchanged.
C14_AppendsToLatestOpenTrajectory == [][PointAdded => AppendsToLatestOpen]_vars

\* a device has a trajectory that was extended and a later one opened after a
\* gap of more than one hour
C14_Witness ==
    \E i, j \in DOMAIN trajectories :
        /\ i < j
        /\ trajectories[i].device_id = trajectories[j].device_id
        /\ trajectories[i].point_count >= 2
        /\ trajectories[j].start_time > trajectories[i].end_time + 2

PointsOf(i) == {k \in DOMAIN trajectory_points : trajectory_points[k].trajectory_id = i}

\* C15: every persisted point of every trajectory has its timestamp between
\* the trajectory's start_time and end_time.
C15_PointsWithinTrajectoryTimes ==
    \A i \in DOMAIN trajectories : \A k \in PointsOf(i) :
        /\ trajectories[i].start_time <= trajectory_points[k].timestamp
        /\ trajectory_points[k].timestamp <= trajectories[i].end_time

\* C16: every trajectory has start_time <= end_time.
C16_StartNotAfterEnd ==
    \A i \in DOMAIN trajectories : trajectories[i].start_time <= trajectories[i].end_time

\* C17: every trajectory's point_count is the number of points persisted for
\* it, and is at least 1.
C17_PointCountMatchesPoints ==
    \A i \in DOMAIN trajectories :
        /\ trajectories[i].point_count = Cardinality(PointsOf(i))
        /\ trajectories[i].point_count >= 1

\* a trajectory that was extended and one that was opened after it
C17_Witness ==
    \E i, j \in DOMAIN trajectories :
        i # j /\ trajectories[i].point_count >= 2 /\ trajectories[j].point_count = 1

Distance(p, q) == IF p < q THEN q - p ELSE p - q

RECURSIVE PathLength(_)
PathLength(locs) ==
    IF Len(locs) < 2 THEN 0
    ELSE Distance(locs[1], locs[2]) + PathLength(Tail(locs))

\* the locations of the points of trajectory i, in the order they were persisted
RECURSIVE LocationsOf(_, _)
LocationsOf(i, pts) ==
    IF pts = <<>> THEN <<>>
    ELSE IF Head(pts).trajectory_id = i
         THEN <<Head(pts).location>> \o LocationsOf(i, Tail(pts))
         ELSE LocationsOf(i, Tail(pts))

\* C18: every trajectory's total_distance is the sum of the distances between
\* its consecutive persisted points (0 for a single point).
C18_TotalDistanceIsPathLength ==
    \A i \in DOMAIN trajectories :
        trajectories[i].total_distance = PathLength(LocationsOf(i, trajectory_points))

\* the same, reading an unset total_distance as 0
C18_UnsetReadAsZero ==
    \A i \in DOMAIN trajectories :
        (IF trajectories[i].total_distance = NoVal THEN 0 ELSE trajectories[i].total_distance)
            = PathLength(LocationsOf(i, trajectory_points))

Chronological(updates) ==
    \A i, j \in DOMAIN updates : i < j => updates[i].timestamp <= updates[j].timestamp

NoStoreError(updates) ==
    \A i \in DOMAIN updates : updates[i].kind \in {"ok", "invalid"}

\* one update_device_location request for the item, on a session of its own:
\* the outcomes it can have
SingleCall(st, item, user_id) ==
    IF \/ item.kind \in {"invalid", "select_error"}
       \/ ~FindDevice(st.devices, item.device_id, user_id)
    THEN {[store |-> st, ok |-> FALSE]}
    ELSE IF item.kind = "commit_error"
    THEN {[store |-> [st EXCEPT !.cache[item.device_id] =
                            LocationCache(LocationUpdate(item.latitude, item.timestamp,
                                                         item.speed))],
           ok |-> FALSE]}
    ELSE {[store |-> s2, ok |-> TRUE] :
            s2 \in SerialUpdate(st, item.device_id,
                                LocationUpdate(item.latitude, item.timestamp, item.speed))}

\* the requests one after the other, in list order
RECURSIVE SequentialRun(_, _, _, _)
SequentialRun(st, oks, updates, user_id) ==
    IF updates = <<>>
    THEN {[store |-> st, oks |-> oks]}
    ELSE UNION {SequentialRun(o.store, Append(oks, o.ok), Tail(updates), user_id) :
                o \in SingleCall(st, Head(updates), user_id)}

\* the device ids of the items whose index is in I, in list order
Pick(updates, I) ==
    LET F[i \in 0..Len(updates)] ==
            IF i = 0 THEN <<>>
            ELSE IF i \in I THEN Append(F[i - 1], updates[i].device_id) ELSE F[i - 1]
    IN  F[Len(updates)]

FailedIds == [i \in DOMAIN bulk_results.failed |-> bulk_results.failed[i].device_id]

BulkEqualsSequential ==
    \E r \in SequentialRun(Snapshot, <<>>, bulk_input', "u1") :
        /\ Snapshot' = r.store
        /\ bulk_results'.successful = Pick(bulk_input', {i \in DOMAIN r.oks : r.oks[i]})
        /\ FailedIds' = Pick(bulk_input', {i \in DOMAIN r.oks : ~r.oks[i]})

\* C19: a bulk request of chronologically ordered updates leaves the device
\* rows, trajectories, points and cache as the same updates sent one by one in
\* list order do, and reports the same items as successful and as failed.
C19_BulkEqualsSequential ==
    [][(bulk_input' # bulk_input /\ Chronological(bulk_input')) => BulkEqualsSequential]_vars

\* the equivalence for the batches none of whose items meets a store error
C19_FaultFreeBatchEqualsSequential ==
    [][(bulk_input' # bulk_input /\ Chronological(bulk_input') /\ NoStoreError(bulk_input'))
          => BulkEqualsSequential]_vars

\* C20: whatever item fails (unknown device, invalid data, store error), every
\* item of the batch is in exactly one of successful and failed,
\* len(successful) + len(failed) = total_processed = N, and a failure that
\* does not break the session does not keep a later item from being applied.
C20_FailuresNeverAbortBatch ==
    bulk_input # <<>> =>
        /\ bulk_results.total_processed = Len(bulk_input)
        /\ Len(bulk_results.successful) + Len(bulk_results.failed) = Len(bulk_input)
        /\ \E I \in SUBSET DOMAIN bulk_input :
              /\ bulk_results.successful = Pick(bulk_input, I)
              /\ FailedIds = Pick(bulk_input, DOMAIN bulk_input \ I)
              /\ NoStoreError(bulk_input) =>
                    I = {i \in DOMAIN bulk_input :
                            bulk_input[i].kind = "ok" /\ bulk_input[i].device_id \in Fleet}

\* the first item met a store error, the second one was applied
C20_Witness ==
    /\ Len(bulk_input) = 2
    /\ bulk_input[1].kind = "commit_error"
    /\ Len(bulk_results.failed) = 1
    /\ bulk_results.failed[1].error = "store"
    /\ bulk_results.successful = <<bulk_input[2].device_id>>

SameDeviceDecreasing(updates) ==
    \E i, j \in DOMAIN updates :
        /\ i < j
        /\ updates[i].device_id = updates[j].device_id
        /\ updates[i].timestamp # NoVal /\ updates[j].timestamp # NoVal
        /\ updates[j].timestamp < updates[i].timestamp

BulkRequestMade == bulk_input' # bulk_input /\ Len(bulk_input') <= max_items

RejectedUnapplied == response'.status \in {"422", "400"} /\ Snapshot' = Snapshot

\* C21: a bulk request with a decreasing timestamp on two items of one device
\* is rejected before anything is applied, and a bulk request whose timestamps
\* do not decrease per device is never rejected, even when items of different
\* devices are out of order.
C21_OrderingCheckedPerDevice ==
    [][BulkRequestMade =>
          IF SameDeviceDecreasing(bulk_input')
          THEN RejectedUnapplied
          ELSE response'.status = "ok"]_vars

\* the first half alone: decreasing timestamps of one device are rejected
C21_DecreasingRejected ==
    [][(BulkRequestMade /\ SameDeviceDecreasing(bulk_input')) => RejectedUnapplied]_vars

Owns(user_id, device_id) ==
    /\ device_id \in DOMAIN devices
    /\ devices[device_id].exists
    /\ devices[device_id].user_id = user_id

\* some call of one of the five operations by user_id on device_id
DeviceOperation(device_id, user_id) ==
    \/ \E setex_ok \in BOOLEAN :
          update_device_location_setex(device_id, user_id, LocationUpdate(0, 0, NoVal), setex_ok)
    \/ \E data \in DeviceData, commit_ok \in BOOLEAN :
          update_device(device_id, user_id, data, commit_ok)
    \/ \E commit_ok \in BOOLEAN, delete_ok \in BOOLEAN :
          delete_device(device_id, user_id, commit_ok, delete_ok)
    \/ get_device_trajectory(device_id, user_id)
    \/ get_device_statistics(device_id, user_id)

\* C23: update_device_location, update_device, delete_device,
\* get_device_trajectory and get_device_statistics on a device id that does
\* not exist or belongs to another user return not-found and leave every
\* device row, trajectory, trajectory point and cache key as it was.
C23_NotFoundChangesNothing ==
    [][\A d \in CallIds, u \in Users :
          (~Owns(u, d) /\ ~session.inactive /\ DeviceOperation(d, u))
              => (response'.status = "not_found" /\ Snapshot' = Snapshot)]_vars

\* a delete of a device the caller does not own, when both devices are located
C23_Witness ==
    /\ response.op = "delete_device"
    /\ response.status = "not_found"
    /\ \A d \in Fleet : devices[d].exists /\ cache[d] # NoCache
    /\ Len(trajectory_points) > 0

\* C24: when the cache write of update_device_location raises, the location
\* is committed and the call returns the device; when the cache delete of
\* delete_device raises, the device is deleted and the call returns true.
C24_CacheFailureNonFatal ==
    [][\A d \in Fleet, u \in Users :
          (Owns(u, d) /\ ~session.inactive) =>
              /\ update_device_location_setex(d, u, LocationUpdate(0, 0, NoVal), FALSE)
                    => (response'.status = "ok" /\ devices'[d].last_location = 0)
              /\ delete_device(d, u, TRUE, FALSE)
                    => (response'.status = "ok" /\ ~devices'[d].exists)]_vars

\* the half that holds: the delete is committed before the cache is touched
C24_DeleteCommittedBeforeCache ==
    [][\A d \in Fleet, u \in Users :
          (Owns(u, d) /\ ~session.inactive /\ delete_device(d, u, TRUE, FALSE))
              => ~devices'[d].exists]_vars

OwnedBy(user_id) == {d \in DOMAIN devices : devices[d].exists /\ devices[d].user_id = user_id}

\* C25: a user never owns more devices than the max_devices of the tier
\* (free: 5), whatever create_device and delete_device calls were made.
C25_DeviceCountWithinQuota ==
    \A u \in Users : Cardinality(OwnedBy(u)) <= max_devices_free

IdentifierHeld(x) ==
    \E d \in DOMAIN devices : devices[d].exists /\ devices[d].device_identifier = x

\* C27: create_device with an identifier an existing device holds ends in
\* the conflict outcome and adds no device, and no two devices ever share an
\* identifier that is set.
C27_DuplicateIdentifierIsConflict ==
    [][/\ \A u \in {"u1"}, x \in Identifiers, commit_ok \in BOOLEAN :
            (/\ IdentifierHeld(x)
             /\ session = NoSession
             /\ create_device([device_identifier |-> x], u, commit_ok))
                => (response'.status = "conflict" /\ devices' = devices)
       /\ UniqueIdentifiers(devices')]_vars

\* the part the unique index gives
C27_IdentifiersStayUnique == UniqueIdentifiers(devices)

\* C28: when the commit of create_device fails, the caller gets the
\* exception, rollback is called once on the session, and nothing of the
\* failed transaction is left pending in the session.
C28_FailedCommitRolledBack ==
    [][\A u \in {"u1"}, x \in {NoIdentifier} \cup Identifiers :
          (session = NoSession /\ create_device([device_identifier |-> x], u, FALSE))
              => /\ response'.status = "error"
                 /\ session'.rollbacks = session.rollbacks + 1
                 /\ session'.new = <<>>]_vars

\* a device of a create_device call that raised is never stored later
C28_FailedCreateNeverStored ==
    [][(response.op = "create_device" /\ response.status = "error" /\ session.new # <<>>)
          => Cardinality({d \in DOMAIN devices : devices'[d].exists})
                <= Cardinality({d \in DOMAIN devices : devices[d].exists})
                      + (IF response'.op = "create_device" THEN 1 ELSE 0)]_vars

\* C26: no two geofences of one user share a name (create_geofence with a
\* name the user already uses fails and stores nothing); two users may use
\* the same name.
C26_NamesUniquePerUser ==
    \A g, h \in GeofenceIds :
        (/\ g # h
         /\ geofences[g].exists /\ geofences[h].exists
         /\ geofences[g].user_id = geofences[h].user_id)
            => geofences[g].name # geofences[h].name

\* C29: the geometry GET /geofences/{id} returns for a geofence has the
\* vertex list that was stored for it (for a circle, that of its polygon).
C29_GetReturnsStoredVertices ==
    (response.op = "get_geofence" /\ response.status = "ok"
        /\ geofences[response.geofence_id].exists)
        => response.geometry = convert_wkt_to_geometry(geofences[response.geofence_id].geometry)

ActiveOwned(user_id) ==
    {g \in GeofenceIds :
        geofences[g].exists /\ geofences[g].user_id = user_id /\ geofences[g].is_active}

\* C30: both queries return only geofences that are the caller's and active
\* when the query runs (so none that was deactivated or deleted), and in
\* check_point_in_geofences inside and outside are disjoint and
\* total_checked = |inside| + |outside|.
C30_QueriesSeeOnlyActiveOwned ==
    [][\A u \in Users, p \in Locations :
          /\ containing_point(u, p) => response'.inside_geofences \subseteq ActiveOwned(u)
          /\ \A ids \in SUBSET GeofenceIds :
                check_point_in_geofences(u, p, ids) =>
                    /\ response'.inside_geofences \subseteq ActiveOwned(u)
                    /\ response'.outside_geofences \subseteq ActiveOwned(u)
                    /\ response'.inside_geofences \cap response'.outside_geofences = {}
                    /\ response'.total_checked
                          = Cardinality(response'.inside_geofences)
                              + Cardinality(response'.outside_geofences)]_vars

\* a check that found one geofence inside and left out a deactivated one
\* that contains the point
C30_Witness ==
    /\ response.op = "check_point_in_geofences"
    /\ Cardinality(response.inside_geofences) = 1
    /\ response.outside_geofences = {}
    /\ \E g \in GeofenceIds \ response.inside_geofences :
          /\ geofences[g].exists /\ ~geofences[g].is_active
          /\ \A h \in response.inside_geofences :
                /\ geofences[h].user_id = geofences[g].user_id
                /\ geofences[h].geometry = geofences[g].geometry

\* C31: for every user and point and every state of the geofences, the
\* optimised containment queries return the geofence ids that
\* get_geofences_containing_point returns.
C31_OptimisedPathsAgree ==
    \A u \in Users, p \in Locations :
        LET expected == get_geofences_containing_point(geofences, u, p)
        IN  /\ get_geofence_intersections_optimized(geofences, u, p) = expected
            /\ bulk_geofence_check(geofences, <<[device_id |-> "d1", latitude |-> p]>>, u)
                  = {<<"d1", g>> : g \in expected}

\* the paths agree as long as every geofence is active
C31_AgreeOnActiveGeofences ==
    (\A g \in GeofenceIds : geofences[g].exists => geofences[g].is_active)
        => C31_OptimisedPathsAgree

\* C32: every POST the dispatcher makes (first attempt or retry, answered
\* well or not) is recorded as one DeliveryAttempt on the list of its URL,
\* so the list is as long as the number of POSTs made.
C32_EveryAttemptRecorded ==
    Len(deliveries) = Len(posts)


\* Webhook subscriptions of two users on two geofences
RegisterSubscription ==
    \E k \in SubscriptionKeys, events \in EventMasks, is_active \in BOOLEAN :
        register_webhook(k[1], k[2], WebhookConfig(events, is_active))

RemoveSubscription ==
    \E k \in SubscriptionKeys : remove_webhook(k[1], k[2])

NextSubscriptions == RegisterSubscription \/ RemoveSubscription

SpecSubscriptions == Init /\ [][NextSubscriptions]_vars

\* C33: one subscription is stored for each (user, geofence): after
\* register_webhook the lookup returns the configuration just registered,
\* whatever was stored before; after remove_webhook it returns none; and
\* neither touches the subscription of any other (user, geofence).
C33_OneSubscriptionPerKey ==
    [][\A k \in SubscriptionKeys :
          /\ \A events \in EventMasks, is_active \in BOOLEAN :
                register_webhook(k[1], k[2], WebhookConfig(events, is_active))
                    => /\ get_webhooks_for_geofence(webhooks', k[1], k[2])
                             = WebhookConfig(events, is_active)
                       /\ \A other \in SubscriptionKeys \ {k} :
                             webhooks'[other] = webhooks[other]
          /\ remove_webhook(k[1], k[2])
                => /\ get_webhooks_for_geofence(webhooks', k[1], k[2]) = NoWebhook
                   /\ \A other \in SubscriptionKeys \ {k} :
                         webhooks'[other] = webhooks[other]]_vars

\* two users subscribed to the same geofence with different configurations,
\* and a subscription of the first user on the other geofence removed or
\* never made
C33_Witness ==
    /\ webhooks[<<"u1", "g1">>] = WebhookConfig({"enter"}, TRUE)
    /\ webhooks[<<"u2", "g1">>] = WebhookConfig({"enter", "exit"}, FALSE)
    /\ webhooks[<<"u1", "g2">>] = NoWebhook
    /\ webhooks[<<"u2", "g2">>].exists

\* Concurrent update_device_location calls, any of which the store may fail:
\* _add_trajectory_point or db.commit raises after the cache write, the
\* exception leaves update_device_location, the session is closed and its
\* transaction is gone with it
RaiseInUpdate(q, device_id) ==
    /\ pc[q] \in {"cached", "selected"}
    /\ pc' = [pc EXCEPT ![q] = "failed"]
    /\ row_lock' = IF row_lock = q THEN "free" ELSE row_lock
    /\ response' = Response("update_device_location", "error")
    /\ UNCHANGED <<device_vars, geofences, monitor_vars, clock, req, sel, base,
                   limiter_vars, check_vars, webhook_vars, bulk_vars, session_vars, infra_vars>>

FailUpdate == \E q \in Workers : RaiseInUpdate(q, "d1")

NextFaulty == NextConc \/ FailUpdate

SpecFaulty == Init /\ [][NextFaulty]_vars

\* an update of the device with the location and timestamp of the cache
\* entry has been committed
CommittedUpdate(c) ==
    \E i \in DOMAIN trajectory_points :
        /\ trajectory_points[i].location = c.latitude
        /\ trajectory_points[i].timestamp = c.timestamp

\* C34: in every reachable state the cached location and timestamp of a
\* device are those of an update that was committed to the store.
C34_CacheHoldsCommittedUpdate ==
    \A d \in DOMAIN cache : cache[d] # NoCache => CommittedUpdate(cache[d])

\* the same, asked only when no call is between its cache write and the end
\* of its transaction
C34_CommittedOnceCallsEnded ==
    (\A q \in Workers : pc[q] \in {"idle", "done", "failed"})
        => C34_CacheHoldsCommittedUpdate

\* delete_device while update_device_location calls for the device are under
\* way.  The DELETE waits for the row lock of an update that has flushed; an
\* update that loaded the row before the delete finds no row to update when
\* it flushes (StaleDataError) and ends there.
SelectLive == devices["d1"].exists /\ SelectStep

StaleUpdate == ~devices["d1"].exists /\ FailUpdate

DeleteDuringUpdates ==
    /\ row_lock = "free"
    /\ delete_device("d1", "u1", TRUE, TRUE)

NextDeleteConc ==
    EarlierUpdate \/ Load \/ CacheWrite \/ SelectLive \/ Commit \/ StaleUpdate
        \/ DeleteDuringUpdates

SpecDeleteConc == Init /\ [][NextDeleteConc]_vars

\* no trajectory and no trajectory point of the device is in the store
StoreRowsGone(device_id) ==
    /\ \A i \in DOMAIN trajectories : trajectories[i].device_id # device_id
    /\ \A i \in DOMAIN trajectory_points :
          trajectories[trajectory_points[i].trajectory_id].device_id # device_id

\* C35: once delete_device has returned True the device, its trajectories
\* and their points are gone from the store and the cache holds no location
\* for the device, also when update_device_location calls for the device run
\* at the same time.
C35_DeleteLeavesNothing ==
    \A d \in DOMAIN devices :
        ~devices[d].exists => StoreRowsGone(d) /\ cache[d] = NoCache

\* the store part alone
C35_DeleteEmptiesStore ==
    \A d \in DOMAIN devices : ~devices[d].exists => StoreRowsGone(d)

\* The event processor: starts, stops, publishes and the turns of the loops
Listen == \E i \in LoopIds, raises \in BOOLEAN : listen(i, raises)

NextProcessor == start_processing \/ stop_processing \/ publish_event \/ Listen

SpecProcessor == Init /\ [][NextProcessor]_vars

\* C36: at most one consuming loop is active at any time and every message
\* published on geofence_events is handed to _process_event at most once,
\* for every sequence of start_processing and stop_processing calls.
C36_AtMostOneLoop ==
    /\ Cardinality(ActiveLoops) <= 1
    /\ \A m \in MessageIds : processor.handed[m] <= 1

\* an exception raised while one message is processed leaves the loop
\* listening, with the later messages still to come
C36_ExceptionKeepsLoop ==
    [][\A i \in LoopIds :
          (processor.processing /\ listen(i, TRUE))
              => /\ processor'.loops[i] = "listening"
                 /\ processor'.inbox[i] = Tail(processor.inbox[i])]_vars

\* the admitted checks of one limiter that fall in the window ending now
AdmittedInWindow(by) ==
    {i \in DOMAIN calls :
        calls[i].by = by /\ calls[i].allowed /\ InWindow(unix_time, calls[i].at)}

\* C37: the entries a limiter holds for the current window are as many as
\* the requests it admitted in that window (each admitted request adds one
\* entry, a denied one adds none), for the sorted set of RateLimiter and for
\* the list of InMemoryRateLimiter.
C37_EntriesEqualAdmitted ==
    /\ Cardinality({m \in Live(zset, unix_time).members : InWindow(unix_time, m)})
          = Cardinality(AdmittedInWindow("redis"))
    /\ Len(SelectSeq(requests, LAMBDA t : InWindow(unix_time, t)))
          = Cardinality(AdmittedInWindow("memory"))

\* the list of InMemoryRateLimiter alone
C37_MemoryEntriesEqualAdmitted ==
    Len(SelectSeq(requests, LAMBDA t : InWindow(unix_time, t)))
        = Cardinality(AdmittedInWindow("memory"))

\* a denied request leaves the entries of the window as they were
C37_DeniedChangesNothing ==
    [][(Len(calls') = Len(calls) + 1 /\ ~calls'[Len(calls')].allowed)
          => /\ {m \in Live(zset', unix_time).members : InWindow(unix_time, m)}
                   = {m \in Live(zset, unix_time).members : InWindow(unix_time, m)}
             /\ SelectSeq(requests', LAMBDA t : InWindow(unix_time, t))
                   = SelectSeq(requests, LAMBDA t : InWindow(unix_time, t))]_vars

\* One sequence of arrivals of one key given to both limiters, each with its
\* own log and the same limit: every arrival is decided by
\* InMemoryRateLimiter.is_allowed and by RateLimiter.is_allowed
ArriveAtBoth ==
    /\ Len(calls) < MaxRequests
    /\ redis = "up"
    /\ LET m == InMemoryRateLimiter_is_allowed(requests, unix_time)
           r == RateLimiter_is_allowed(zset, unix_time)
       IN  /\ requests' = m.requests
           /\ zset' = r.zset
           /\ calls' = Append(calls, [by |-> "both", at |-> unix_time,
                                      allowed |-> m.allowed, retry_after |-> m.retry_after,
                                      redis_allowed |-> r.allowed])
    /\ UNCHANGED <<service_vars, unix_time, redis, counters, check_vars>>

NextTwin == connect \/ ArriveAtBoth \/ AdvanceWindow

SpecTwin == Init /\ [][NextTwin]_vars

\* C38: for every sequence of arrival times of one key, the two limiters
\* with the same limit give the same admit/deny decision for every request.
C38_SameDecisions ==
    \A i \in DOMAIN calls :
        calls[i].by = "both" => calls[i].allowed = calls[i].redis_allowed

\* the decisions are the same as long as no two arrivals share a second
C38_SameDecisionsOnDistinctSeconds ==
    (\A i, j \in DOMAIN calls : i # j => calls[i].at # calls[j].at)
        => C38_SameDecisions

\* The response cache: responses cached with tags and TTLs, tags invalidated,
\* time passing
CacheResponse ==
    \E k \in CacheKeys, ttl \in Ttls, tags \in SUBSET Tags : cache_response(k, ttl, tags)

InvalidateByTags == \E t \in Tags : invalidate_by_tags({t})

AdvanceCacheClock == Advance(CacheInstants)

NextCache == CacheResponse \/ InvalidateByTags \/ AdvanceCacheClock

SpecCache == Init /\ [][NextCache]_vars

\* C39: once invalidate_by_tags([t]) has completed, get_cached_response
\* returns no response that was cached with tag t, whatever cache_response
\* calls and passage of time came before.
C39_InvalidatedTagNotServed ==
    [][\A t \in Tags :
          invalidate_by_tags({t})
              => \A k \in CacheKeys :
                    t \notin get_cached_response(response_cache', k, unix_time).tags]_vars

\* the same as long as the tag set of t has not expired
C39_InvalidatedWhileTagSetLives ==
    [][\A t \in Tags :
          (/\ \A k \in CacheKeys :
                 LET e == get_cached_response(response_cache, k, unix_time)
                 IN  t \in e.tags
                        => k \in LiveTagSet(response_cache.tag_sets[t], unix_time).members
           /\ invalidate_by_tags({t}))
              => \A k \in CacheKeys :
                    t \notin get_cached_response(response_cache', k, unix_time).tags]_vars

\* Location updates that carry a speed: none, 0 m/s (a device at rest; the
\* schema asks for speed >= 0) or more
Speeds == {NoVal, 0, 1, 2}

UpdateWithSpeed ==
    \E ts \in Times, speed \in Speeds :
        update_device_location("d1", "u1", LocationUpdate(0, ts, speed))

NextSpeed == UpdateWithSpeed

SpecSpeed == Init /\ [][NextSpeed]_vars

Max(S) == CHOOSE x \in S : \A y \in S : x >= y

\* the speeds supplied with the points appended to trajectory i
SuppliedSpeeds(i) ==
    {trajectory_points[j].speed :
        j \in {n \in DOMAIN trajectory_points :
                  /\ trajectory_points[n].trajectory_id = i
                  /\ trajectory_points[n].speed # NoVal}}

\* C40: after any sequence of location updates the max_speed of a trajectory
\* is the greatest of the speeds supplied with the points appended to it, and
\* is unset only when no appended point supplied a speed.
C40_MaxSpeedIsMaximum ==
    \A i \in DOMAIN trajectories :
        trajectories[i].max_speed
            = IF SuppliedSpeeds(i) = {} THEN NoVal ELSE Max(SuppliedSpeeds(i))

\* max_speed is the greatest of the supplied speeds above zero
C40_MaxOfPositiveSpeeds ==
    \A i \in DOMAIN trajectories :
        trajectories[i].max_speed
            = IF SuppliedSpeeds(i) \ {0} = {} THEN NoVal ELSE Max(SuppliedSpeeds(i))

\* max_speed, once set, never decreases and is never unset
C40_MaxSpeedNeverDecreases ==
    [][\A i \in DOMAIN trajectories :
          trajectories[i].max_speed # NoVal
              => trajectories'[i].max_speed >= trajectories[i].max_speed]_vars
====
